---- MODULE Spec2Model ----
(***************************************************************************)
(* Verification model of elsevier_coordinate_extraction: the ScienceDirect *)
(* HTTP client (client.py, rate_limits.py) and the article download        *)
(* pipeline (download/api.py).                                             *)
(*                                                                         *)
(* Two specifications share the client's actions:                          *)
(*   SpecClient  one caller driving ScienceDirectClient.request            *)
(*   Spec        download_articles driving the client through              *)
(*               _download_record / _download_identifier                   *)
(***************************************************************************)
EXTENDS Integers, Sequences, FiniteSets, TLC

\* ------------------------------------------------------------------ bounds

\* Longest record list handed to download_articles.
MaxRecords == 2
\* Largest max_retries argument a client is constructed with.
MaxRetriesArg == 2
\* Number of coroutines that call one client concurrently.
MaxCoroutines == 3
\* Most column specifications of a table.
MaxCols == 3
\* Most row elements of a table.
MaxRows == 3
\* Most articles handed to extract_coordinates.
MaxArticles == 3
\* Threads that run FileCache._write_atomic for one key.
MaxWriters == 2
\* Most calls of FileCache.set for that key.
MaxCacheWrites == 3
\* Most coordinate rows of a table.
MaxPoints == 2
\* Most rows of a DataFrame handed to _normalize_table.
MaxFrameRows == 6

\* ------------------------------------------------------- optional values
\* Python's None for numeric values: an optional number is the empty set or
\* a singleton.
None == {}
Some(x) == {x}
Val(o) == CHOOSE x \in o : TRUE
Max(a, b) == IF a >= b THEN a ELSE b

\* ------------------------------------------------------------- payloads
\* A payload is described by what _payload_contains_full_text reads from it:
\* whether it parses as XML and which structural elements it contains.
NoPayload == [present |-> FALSE, wf |-> FALSE, markers |-> {}]
FullPayload == [present |-> TRUE, wf |-> TRUE, markers |-> {"body", "para"}]
TablePayload == [present |-> TRUE, wf |-> TRUE, markers |-> {"table"}]
MetaPayload == [present |-> TRUE, wf |-> TRUE, markers |-> {}]
BrokenPayload == [present |-> TRUE, wf |-> FALSE, markers |-> {"section"}]
Payloads == {FullPayload, TablePayload, MetaPayload, BrokenPayload}

\* api.py _payload_contains_full_text: a parse error means "no full text";
\* otherwise any of body, section, para / simple-para, table qualifies.
payload_contains_full_text(payload) ==
    IF ~payload.wf THEN FALSE
    ELSE IF "body" \in payload.markers THEN TRUE
    ELSE IF "section" \in payload.markers THEN TRUE
    ELSE IF "para" \in payload.markers \/ "simple-para" \in payload.markers THEN TRUE
    ELSE IF "table" \in payload.markers THEN TRUE
    ELSE FALSE

\* ------------------------------------------------------------ responses
\* Header values are kept with their syntactic kind: absent, the empty
\* string, a number, an HTTP date (seconds on the model's clock) or text that
\* is neither.
Hdr(kind, v) == [kind |-> kind, v |-> v]
NoHdr == Hdr("absent", 0)

RetryAfterValues ==
    {NoHdr, Hdr("empty", 0), Hdr("num", 0), Hdr("num", 1), Hdr("num", 4000),
     Hdr("date", 2), Hdr("bad", 0)}
ResetValues == {NoHdr, Hdr("num", 2), Hdr("bad", 0)}
\* Readings of the wall clock when a response is inspected.
Times == {1, 3}

RetryableStatuses == {429, 500, 503}
ErrorStatuses == {400, 404, 429, 500, 503}

Response(status, ra, reset, payload, view_err) ==
    [status |-> status, retry_after |-> ra, reset |-> reset,
     payload |-> payload, view_err |-> view_err]
NoResponse == Response(0, NoHdr, NoHdr, NoPayload, "none")

OkResponses ==
    {Response(200, NoHdr, NoHdr, p, "none") : p \in Payloads}
        \cup {Response(200, Hdr("num", 1), Hdr("num", 2), FullPayload, "none")}
ErrorResponses ==
    {Response(s, ra, rs, NoPayload, "none") :
        s \in ErrorStatuses, ra \in RetryAfterValues, rs \in ResetValues}
        \cup {Response(400, NoHdr, NoHdr, NoPayload, v) : v \in {"header", "body"}}
Responses == OkResponses \cup ErrorResponses
\* The answers the article endpoint gives in the download specification: one
\* per branch of the download code (full text, metadata only, not found,
\* rejected view, server error without and with a retry delay).
DownloadResponses ==
    {Response(200, NoHdr, NoHdr, FullPayload, "none"),
     Response(200, NoHdr, NoHdr, MetaPayload, "none"),
     Response(200, NoHdr, NoHdr, BrokenPayload, "none"),
     Response(404, NoHdr, NoHdr, NoPayload, "none"),
     Response(400, NoHdr, NoHdr, NoPayload, "header"),
     Response(500, NoHdr, NoHdr, NoPayload, "none"),
     Response(429, Hdr("num", 1), NoHdr, NoPayload, "none")}

\* ----------------------------------------------------------- exceptions
Error(cls, status, msg) == [cls |-> cls, status |-> status, msg |-> msg]
NoError == Error("None", 0, "")

\* ------------------------------------------------------- rate_limits.py
\* get_rate_limit_snapshot._parse_float: None for a missing header and for
\* text float() rejects (the empty string included).
parse_float(h) == IF h.kind \in {"num"} THEN Some(h.v) ELSE None

get_rate_limit_snapshot(response) ==
    [reset_epoch |-> parse_float(response.reset)]

\* RateLimitSnapshot.seconds_until_reset
seconds_until_reset(snapshot, now) ==
    IF snapshot.reset_epoch = None THEN None
    ELSE Some(Max(Val(snapshot.reset_epoch) - now, 0))

\* get_retry_delay with a Retry-After that parses as neither a number nor a
\* date passed on to X-RateLimit-Reset.
get_retry_delay_falling_through(response, now) ==
    LET snapshot == get_rate_limit_snapshot(response)
        retry_after == response.retry_after
    IN  IF retry_after.kind \in {"num", "date"}
        THEN IF retry_after.kind = "num" THEN Some(retry_after.v)
             ELSE Some(Max(retry_after.v - now, 0))
        ELSE IF snapshot.reset_epoch # None
             THEN LET delay == seconds_until_reset(snapshot, now)
                  IN  IF delay # None /\ Val(delay) # 0 /\ Val(delay) > 0
                      THEN delay ELSE None
             ELSE None

\* get_retry_delay: a non-empty Retry-After decides alone (number, date
\* delta clamped at 0, or None when it parses as neither); only a missing or
\* empty Retry-After falls through to X-RateLimit-Reset, which yields a
\* delay only when it is strictly positive.
get_retry_delay(response, now) ==
    LET snapshot == get_rate_limit_snapshot(response)
        retry_after == response.retry_after
    IN  IF retry_after.kind \notin {"absent", "empty"}
        THEN IF retry_after.kind = "num" THEN Some(retry_after.v)
             ELSE IF retry_after.kind = "bad" THEN None
             ELSE Some(Max(retry_after.v - now, 0))
        ELSE IF snapshot.reset_epoch # None
             THEN LET delay == seconds_until_reset(snapshot, now)
                  IN  IF delay # None /\ Val(delay) # 0 /\ Val(delay) > 0
                      THEN delay ELSE None
             ELSE None

\* ------------------------------------------------------------ client.py
\* ScienceDirectClient.__init__: self._max_retries = max(0, max_retries)
init_max_retries(arg) == Max(0, arg)

\* Off-by-one retry guard (attempt <= max_retries).
should_retry_off_by_one(delay, status, attempt, maxr) ==
    /\ delay # None
    /\ status \in RetryableStatuses
    /\ attempt <= maxr

\* Retry guard that no longer asks for a computed delay.
should_retry_without_delay(delay, status, attempt, maxr) ==
    /\ status \in RetryableStatuses
    /\ attempt < maxr

\* _request, the condition of the retry branch.
should_retry(delay, status, attempt, maxr) ==
    /\ delay # None
    /\ status \in RetryableStatuses
    /\ attempt < maxr

\* httpx.Response.raise_for_status as used by _request: 4xx and 5xx raise.
raises_for_status(response) == response.status >= 400

\* settings.py _DEFAULT_MAX_RATE_LIMIT_WAIT
DefaultMaxRateLimitWait == 3600
\* Values of Settings.max_rate_limit_wait: unlimited, a short ceiling, the default.
MaxWaits == {None, Some(60), Some(DefaultMaxRateLimitWait)}

\* --------------------------------------------------- identifier records
\* Identifier strings are sequences of characters; Absent stands for a key
\* the record does not carry.
Absent == <<"<absent>">>
RawDois == {Absent, <<" ">>, <<" ", "a", " ">>}
RawPmids == {Absent, << >>, <<"a">>, <<"b", " ">>}
Records == [doi : RawDois, pmid : RawPmids]

\* record.get(key) or ""
get_or_empty(v) == IF v = Absent THEN << >> ELSE v

RECURSIVE lstrip(_)
lstrip(s) == IF s # << >> /\ Head(s) = " " THEN lstrip(Tail(s)) ELSE s
RECURSIVE rstrip(_)
rstrip(s) ==
    IF s # << >> /\ s[Len(s)] = " " THEN rstrip(SubSeq(s, 1, Len(s) - 1)) ELSE s
\* str.strip()
strip(s) == rstrip(lstrip(s))

\* Attempt list built from the identifiers as given, without trimming.
build_attempts_unstripped(record) ==
    LET doi == get_or_empty(record.doi)
        pmid == get_or_empty(record.pmid)
        first == IF doi # << >> THEN << <<"doi", doi>> >> ELSE << >>
    IN  IF pmid # << >> /\ pmid \notin {first[i][2] : i \in 1..Len(first)}
        THEN Append(first, <<"pmid", pmid>>) ELSE first

\* Attempt order with the pmid ahead of the doi.
build_attempts_pmid_first(record) ==
    LET doi == strip(get_or_empty(record.doi))
        pmid == strip(get_or_empty(record.pmid))
        first == IF pmid # << >> THEN << <<"pmid", pmid>> >> ELSE << >>
    IN  IF doi # << >> /\ doi # pmid
        THEN Append(first, <<"doi", doi>>) ELSE first

\* _download_record, the attempt list: doi first when present, then the pmid
\* unless its value is already in the list.
build_attempts(record) ==
    LET doi == strip(get_or_empty(record.doi))
        pmid == strip(get_or_empty(record.pmid))
        first == IF doi # << >> THEN << <<"doi", doi>> >> ELSE << >>
    IN  IF pmid # << >> /\ pmid \notin {first[i][2] : i \in 1..Len(first)}
        THEN Append(first, <<"pmid", pmid>>) ELSE first

\* _cache_key_for_identifier: f"{identifier_type}:{identifier}"
cache_key_for_identifier(identifier, identifier_type) ==
    <<identifier_type, ":">> \o identifier

AllAttempts ==
    UNION {{build_attempts(r)[i] : i \in 1..Len(build_attempts(r))} : r \in Records}
CacheKeys == {cache_key_for_identifier(a[2], a[1]) : a \in AllAttempts}
\* What a cache directory may hold before a download starts.
InitialCaches == [CacheKeys -> {NoPayload, FullPayload, MetaPayload}]
EmptyCache == [k \in CacheKeys |-> NoPayload]

\* ------------------------------------------------------------- articles
Article(id_type, id, payload, transport, view) ==
    [id_type |-> id_type, id |-> id, payload |-> payload,
     transport |-> transport, view_obtained |-> view, rec |-> 0]
NoArticle == Article("None", << >>, NoPayload, "", "")

\* Result of one call: an article or a raised exception.
Returned(article) == [kind |-> "article", article |-> article, err |-> NoError]
Raised(err) == [kind |-> "raise", article |-> NoArticle, err |-> err]
NoDocument == [kind |-> "none", article |-> NoArticle, err |-> NoError]

\* ----------------------------------------------- extract/coordinates.py
\* A table element: its form ("cals" with a tgroup, "simple" with tr/td
\* rows), the colname attribute of each colspec (Absent when it has none)
\* and the rows, each a sequence of child elements.
Table(form, colspecs, rows) == [form |-> form, colspecs |-> colspecs, rows |-> rows]
NoTable == Table("none", << >>, << >>)
\* A DataFrame: column labels and rows of cell strings.
Frame(columns, rows) == [kind |-> "frame", columns |-> columns, rows |-> rows]
NoFrame == [kind |-> "none", columns |-> << >>, rows |-> << >>]

\* A child element of a row: whether its tag is entry, its text (joined and
\* stripped) and the attributes morerows, colname, namest, nameend, colspan.
Cell(text, entry, morerows, colname, namest, nameend, colspan) ==
    [text |-> text, entry |-> entry, morerows |-> morerows, colname |-> colname,
     namest |-> namest, nameend |-> nameend, colspan |-> colspan]
PlainCell(text) == Cell(text, TRUE, NoHdr, Absent, Absent, Absent, NoHdr)
\* Column names: the declared name of column i, and a name no colspec has.
ColName(i) == <<"c", i>>
UnknownName == <<"zz", 0>>
\* The cell that spans two rows and the columns c1 to c2.
SpanCell == Cell("s", TRUE, Hdr("num", 1), Absent, ColName(1), ColName(2), NoHdr)
\* A cell that spans two rows.
TallCell == Cell("b", TRUE, Hdr("num", 1), Absent, Absent, Absent, NoHdr)
\* A cell naming an unknown column, with a colspan wider than the table
\* and an unreadable morerows.
WideCell == Cell("u", TRUE, Hdr("bad", 0), UnknownName, Absent, Absent, Hdr("num", 3))
\* A cell that spans three rows.
DeepCell == Cell("d", TRUE, Hdr("num", 2), Absent, Absent, Absent, NoHdr)
\* A child of a row that is not an entry.
OtherChild == Cell("n", FALSE, NoHdr, Absent, Absent, Absent, NoHdr)
CalsCells == {PlainCell("a"), TallCell, SpanCell, WideCell, OtherChild}
\* The rows of span-capable tables: no cell, one cell, a cell followed by a
\* plain one, a plain one followed by a row span, the 2x2 span followed by
\* the surplus cell.
CalsRows ==
    {<< >>} \cup {<<c>> : c \in CalsCells}
        \cup {<<c, PlainCell("a")>> : c \in CalsCells}
        \cup {<<PlainCell("a"), TallCell>>, <<SpanCell, WideCell>>}
\* The rows of simple tables: up to MaxCols cells.
SimpleRows == {[i \in 1..n |-> PlainCell("a")] : n \in 0..MaxCols}
\* Row sequences of at most MaxRows rows.
RowSeqs(rows) == UNION {[1..n -> rows] : n \in 0..MaxRows}
\* Column specifications: none, or 1..MaxCols named columns, or named
\* columns followed by one colspec without a colname.
ColSpecs ==
    {[i \in 1..n |-> ColName(i)] : n \in 0..MaxCols}
        \cup {[i \in 1..n |-> IF i = n THEN Absent ELSE ColName(i)] : n \in 2..MaxCols}
Tables ==
    {Table("cals", cs, rs) : cs \in ColSpecs, rs \in RowSeqs(CalsRows)}
        \cup {Table("simple", << >>, rs) : rs \in RowSeqs(SimpleRows)}

\* The rows of the tables that show how long a row span lasts: rows of
\* plain cells, and rows with one cell that spans two or three rows.
RowSpanRows ==
    {<< >>, <<PlainCell("a")>>, <<PlainCell("a"), PlainCell("a")>>,
     <<DeepCell>>, <<PlainCell("a"), DeepCell>>, <<TallCell, PlainCell("a")>>,
     <<SpanCell>>}
\* Those tables: up to MaxRows + 1 rows, so that a row follows the last row
\* a span of three rows covers, and 2..MaxCols named columns.
RowSpanTables ==
    {Table("cals", [i \in 1..n |-> ColName(i)], rs) :
        n \in 2..MaxCols,
        rs \in UNION {[1..m -> RowSpanRows] : m \in 0..(MaxRows + 1)}}

\* _cals_table_to_dataframe, col_order: spec.get("colname") or f"col{idx+1}"
col_order_of(colspecs) ==
    [i \in 1..Len(colspecs) |->
        IF colspecs[i] = Absent \/ colspecs[i] = << >> THEN <<"col", i>> ELSE colspecs[i]]

\* col_index.get(name, default): the dictionary keeps the last position of a
\* name. Positions are counted from 1 here, from 0 in the code.
col_index_get(col_order, name, default) ==
    LET hits == {i \in 1..Len(col_order) : col_order[i] = name}
    IN  IF hits = {} THEN default
        ELSE CHOOSE i \in hits : \A j \in hits : j <= i

\* A slot of the pending list: None, or the text of an open row span and
\* the number of rows it still covers.
NoPending == [active |-> FALSE, text |-> "", remaining |-> 0]
Pending(text, remaining) == [active |-> TRUE, text |-> text, remaining |-> remaining]

\* A store that lets a surplus cell lengthen the row.
store_cell_growing(values, idx, n_cols, v) ==
    IF idx > Len(values) THEN Append(values, v) ELSE [values EXCEPT ![idx] = v]

\* values[idx] = ... inside "for offset in range(span)", behind the guard
\* "if idx >= n_cols: break": idx only grows in that loop, so leaving the
\* loop and skipping the stores beyond the last column are the same.
store_cell(values, idx, n_cols, v) ==
    IF idx > n_cols THEN values ELSE [values EXCEPT ![idx] = v]

\* A column span that repeats the text in every covered column.
span_text_repeated(text, offset) == text

\* values[idx] = text if offset == 0 else ""
span_text(text, offset) == IF offset = 0 THEN text ELSE ""

RECURSIVE store_span(_, _, _, _, _, _)
\* for offset in range(span): the cell's text in the first covered column,
\* the other covered columns blanked.
store_span(values, start, offset, span, n_cols, text) ==
    IF offset >= span THEN values
    ELSE store_span(store_cell(values, start + offset, n_cols, span_text(text, offset)),
                    start, offset + 1, span, n_cols, text)

RECURSIVE skip_filled(_, _, _)
\* while pointer < n_cols and filled[pointer]: pointer += 1
skip_filled(filled, pointer, n_cols) ==
    IF pointer <= n_cols /\ filled[pointer]
    THEN skip_filled(filled, pointer + 1, n_cols) ELSE pointer

\* rowspan = int(morerows) + 1, 1 without the attribute or on ValueError
rowspan_of(cell) ==
    IF cell.morerows.kind = "num" THEN cell.morerows.v + 1 ELSE 1

\* One iteration of "for cell in row": st holds values, filled, pending and
\* pointer.
place_cell(st, cell, n_cols, col_order) ==
    IF ~cell.entry THEN st
    ELSE
    LET rowspan == rowspan_of(cell)
        scanned == IF cell.colname = Absent /\ cell.namest = Absent
                   THEN skip_filled(st.filled, st.pointer, n_cols) ELSE st.pointer
        start == IF cell.colname # Absent
                 THEN col_index_get(col_order, cell.colname, st.pointer)
                 ELSE IF cell.namest # Absent
                 THEN col_index_get(col_order, cell.namest, st.pointer)
                 ELSE scanned
        span == IF cell.nameend # Absent
                THEN Max(1, col_index_get(col_order, cell.nameend, start) - start + 1)
                ELSE IF cell.colspan.kind = "num" THEN Max(1, cell.colspan.v)
                ELSE 1
        covered == {i \in 1..n_cols : start <= i /\ i < start + span}
    IN  IF start > n_cols THEN [st EXCEPT !.pointer = scanned]
        ELSE [values |-> store_span(st.values, start, 0, span, n_cols, cell.text),
              filled |-> [i \in 1..n_cols |-> st.filled[i] \/ i \in covered],
              pending |-> [i \in 1..n_cols |->
                              IF rowspan > 1 /\ i \in covered
                              THEN Pending(cell.text, rowspan - 1) ELSE st.pending[i]],
              pointer |-> Max(scanned, start + span)]

RECURSIVE place_cells(_, _, _, _)
place_cells(st, cells, n_cols, col_order) ==
    IF cells = << >> THEN st
    ELSE place_cells(place_cell(st, Head(cells), n_cols, col_order),
                     Tail(cells), n_cols, col_order)

\* A prefill that never counts the open row spans down.
start_row_never_clearing(pending, n_cols) ==
    [values |-> [i \in 1..n_cols |-> IF pending[i].active THEN pending[i].text ELSE ""],
     filled |-> [i \in 1..n_cols |-> pending[i].active],
     pending |-> pending,
     pointer |-> 1]

\* One iteration of "for row in row_elements": the prefill from the open
\* row spans, then the row's cells.
start_row(pending, n_cols) ==
    [values |-> [i \in 1..n_cols |-> IF pending[i].active THEN pending[i].text ELSE ""],
     filled |-> [i \in 1..n_cols |-> pending[i].active],
     pending |-> [i \in 1..n_cols |->
                     IF pending[i].active /\ pending[i].remaining - 1 > 0
                     THEN Pending(pending[i].text, pending[i].remaining - 1)
                     ELSE NoPending],
     pointer |-> 1]

RECURSIVE cals_grid(_, _, _, _, _)
\* The loop over the rows: grid.append(values) after each.
cals_grid(grid, pending, rows, n_cols, col_order) ==
    IF rows = << >> THEN grid
    ELSE LET st == place_cells(start_row(pending, n_cols), Head(rows), n_cols, col_order)
         IN  cals_grid(Append(grid, st.values), st.pending, Tail(rows), n_cols, col_order)

\* _cals_table_to_dataframe: None without colspecs, without rows or with a
\* grid of at most one row.
cals_table_to_dataframe(colspecs, rows) ==
    IF colspecs = << >> \/ rows = << >> THEN NoFrame
    ELSE LET col_order == col_order_of(colspecs)
             n_cols == Len(col_order)
             grid == cals_grid(<< >>, [i \in 1..n_cols |-> NoPending], rows,
                               n_cols, col_order)
         IN  IF Len(grid) <= 1 THEN NoFrame ELSE Frame(col_order, grid)

RECURSIVE row_texts(_)
\* The texts of a row's cells (xpath ./entry or ./th|td).
row_texts(cells) ==
    IF cells = << >> THEN << >>
    ELSE IF Head(cells).entry THEN <<Head(cells).text>> \o row_texts(Tail(cells))
    ELSE row_texts(Tail(cells))

RECURSIVE nonempty_rows(_)
\* rows.append(cells) for the rows that have cells
nonempty_rows(rows) ==
    IF rows = << >> THEN << >>
    ELSE LET cells == row_texts(Head(rows)) IN
         IF cells # << >> THEN <<cells>> \o nonempty_rows(Tail(rows))
         ELSE nonempty_rows(Tail(rows))

RECURSIVE max_len(_)
max_len(rows) ==
    IF rows = << >> THEN 0 ELSE Max(Len(Head(rows)), max_len(Tail(rows)))

\* Rows kept at their own length.
pad_row_unpadded(r, n) == r

\* r + [""] * (max_len - len(r))
pad_row(r, n) == [i \in 1..n |-> IF i <= Len(r) THEN r[i] ELSE ""]

\* _table_to_dataframe, the simple form: None with at most one row, else the
\* padded first row as the column labels and the padded others as the data.
simple_table_to_dataframe(rows) ==
    LET kept == nonempty_rows(rows)
        n == max_len(kept)
        padded == [i \in 1..Len(kept) |-> pad_row(kept[i], n)]
    IN  IF Len(kept) <= 1 THEN NoFrame
        ELSE Frame(padded[1], SubSeq(padded, 2, Len(padded)))

\* _table_to_dataframe: the span-capable form when the table has a tgroup
\* and it yields a DataFrame, the simple form otherwise.
table_to_dataframe(t) ==
    LET df == IF t.form = "cals" THEN cals_table_to_dataframe(t.colspecs, t.rows)
              ELSE NoFrame
    IN  IF df # NoFrame THEN df ELSE simple_table_to_dataframe(t.rows)

\* ------------------------------------------------------ _normalize_table
\* Cell strings and column labels of the DataFrames that are normalized are
\* sequences of characters, as the identifiers are.
\* str.lower: a capital letter becomes its small letter, every other
\* character stays.
UpperCase == <<"A", "B", "C", "D", "E", "F", "G", "H", "I", "J", "K", "L", "M", "N", "O", "P", "Q", "R", "S", "T", "U", "V", "W", "X", "Y", "Z">>
LowerCase == <<"a", "b", "c", "d", "e", "f", "g", "h", "i", "j", "k", "l", "m", "n", "o", "p", "q", "r", "s", "t", "u", "v", "w", "x", "y", "z">>
lower_char(c) ==
    IF \E i \in 1..26 : UpperCase[i] = c
    THEN LowerCase[CHOOSE i \in 1..26 : UpperCase[i] = c]
    ELSE c
lower(s) == [i \in 1..Len(s) |-> lower_char(s[i])]
AxisLabels == {<<"x">>, <<"y">>, <<"z">>}

\* _normalize_table: max_header_rows = min(5, len(df))
MaxHeaderRows == 5

\* Header rows taken from the whole DataFrame.
header_rows_unbounded(df) ==
    [i \in 1..Len(df.rows) |->
        [j \in 1..Len(df.rows[i]) |-> strip(df.rows[i][j])]]

\* header_rows: the stripped cells of the first min(5, len(df)) rows
header_rows(df) ==
    LET max_header_rows == IF Len(df.rows) < MaxHeaderRows THEN Len(df.rows)
                           ELSE MaxHeaderRows
    IN  [i \in 1..max_header_rows |->
            [j \in 1..Len(df.rows[i]) |-> strip(df.rows[i][j])]]

\* {"x", "y", "z"}.issubset({value.lower() for value in row if value})
is_axis_row(row) ==
    AxisLabels \subseteq {lower(row[j]) : j \in {k \in 1..Len(row) : row[k] # << >>}}

RECURSIVE find_header_row(_, _)
\* The loop that sets header_row_index: the first header row holding x, y
\* and z, from position idx on; 0 stands for None.
find_header_row(hrows, idx) ==
    IF idx > Len(hrows) THEN 0
    ELSE IF is_axis_row(hrows[idx]) THEN idx
    ELSE find_header_row(hrows, idx + 1)

RECURSIVE nearest_header(_, _, _)
\* for idx in range(header_row_index, -1, -1): the nearest non-blank cell of
\* the column at or above the anchor; the empty string when there is none.
nearest_header(hrows, idx, col) ==
    IF idx < 1 THEN << >>
    ELSE IF hrows[idx][col] # << >> THEN hrows[idx][col]
    ELSE nearest_header(hrows, idx - 1, col)

\* combined_headers
combined_headers(df, hrows, anchor) ==
    [col \in 1..Len(df.columns) |->
        LET header_value == nearest_header(hrows, anchor, col)
        IN  IF header_value = << >> THEN df.columns[col] ELSE header_value]

\* The else branch: the first row, stripped and lowercased, renames the
\* columns whose cell is x, y or z (a later cell wins for a repeated label).
rename_from_first_row(df) ==
    LET first_row == [j \in 1..Len(df.columns) |-> lower(strip(df.rows[1][j]))]
        named(j) == {i \in 1..Len(first_row) :
                        first_row[i] \in AxisLabels /\ df.columns[i] = df.columns[j]}
    IN  IF AxisLabels \subseteq {first_row[j] : j \in 1..Len(first_row)}
        THEN Frame([j \in 1..Len(df.columns) |->
                       IF named(j) = {} THEN df.columns[j]
                       ELSE first_row[CHOOSE i \in named(j) : \A k \in named(j) : k <= i]],
                   Tail(df.rows))
        ELSE df

\* df[...] restricted to the columns at the positions idxs, in that order.
select_columns(df, idxs) ==
    Frame([k \in 1..Len(idxs) |-> df.columns[idxs[k]]],
          [r \in 1..Len(df.rows) |-> [k \in 1..Len(idxs) |-> df.rows[r][idxs[k]]]])

RECURSIVE positions_where(_, _, _)
\* The positions from i on that are in the set keep, in increasing order.
positions_where(keep, i, n) ==
    IF i > n THEN << >>
    ELSE IF i \in keep THEN <<i>> \o positions_where(keep, i + 1, n)
    ELSE positions_where(keep, i + 1, n)

\* df.loc[:, ~df.columns.duplicated()]: the first column of each label
drop_duplicated(df) ==
    select_columns(df,
        positions_where({j \in 1..Len(df.columns) :
                            \A i \in 1..(j - 1) : df.columns[i] # df.columns[j]},
                        1, Len(df.columns)))

\* df.dropna(axis=1, how="all"): cells are strings, never NaN, so a column
\* goes only when the frame has no row left.
dropna_all(df) == IF df.rows = << >> THEN Frame(<< >>, << >>) ELSE df

\* xyz_cols first when x, y and z are all column labels, the others after
\* them in their order.
xyz_first(df) ==
    LET n == Len(df.columns)
        pos(label) == CHOOSE j \in 1..n : df.columns[j] = label
        has(label) == \E j \in 1..n : df.columns[j] = label
    IN  IF has(<<"x">>) /\ has(<<"y">>) /\ has(<<"z">>)
        THEN select_columns(df,
                 <<pos(<<"x">>), pos(<<"y">>), pos(<<"z">>)>>
                     \o positions_where({j \in 1..n : df.columns[j] \notin AxisLabels}, 1, n))
        ELSE df

\* _normalize_table
normalize_table(df) ==
    IF df.rows = << >> \/ df.columns = << >> THEN df
    ELSE LET hrows == header_rows(df)
             header_row_index == find_header_row(hrows, 1)
             anchored ==
                 IF header_row_index # 0
                 THEN Frame(combined_headers(df, hrows, header_row_index),
                            SubSeq(df.rows, header_row_index + 1, Len(df.rows)))
                 ELSE rename_from_first_row(df)
         IN  xyz_first(dropna_all(drop_duplicated(anchored)))

\* The rows of the DataFrames that are normalized, four cells each: a
\* header with padded and capital axis labels, a header with the exact
\* labels behind a blank cell, a row of numbers, a title row.
PaddedAxisRow == << <<" ", "X">>, <<"y">>, <<"Z", " ">>, << >> >>
ExactAxisRow == << << >>, <<"z">>, <<"y">>, <<"x">> >>
NumberRow == << <<"1">>, <<"2">>, <<"3">>, <<"4">> >>
TitleRow == << <<"a">>, << >>, << >>, <<"y">> >>
FrameRows == {PaddedAxisRow, ExactAxisRow, NumberRow, TitleRow}
\* Column labels: the first row of a simple table, or the names of colspecs.
FrameColumns ==
    {<< <<"h">>, <<"x">>, <<"y">>, <<"z">> >>,
     << <<"c", "1">>, <<"c", "2">>, <<"c", "3">>, <<"c", "4">> >>}
Frames ==
    {Frame(cols, rows) :
        cols \in FrameColumns,
        rows \in UNION {[1..n -> FrameRows] : n \in 0..MaxFrameRows}}

\* ------------------------------------------------------- space inference
\* token in text, for strings as sequences of characters.
contains(text, token) ==
    \E i \in 0..(Len(text) - Len(token)) : SubSeq(text, i + 1, i + Len(token)) = token

\* _heuristic_space: tal_tokens
tal_tokens ==
    {<<"t", "a", "l", "a", "i", "r">>,
     <<"t", "a", "l", "a", "i", "r", "a", "c", "h">>,
     <<"t", "a", "l", "a", "i", "r", "a", "c">>,
     <<"t", "a", "l", "a", "i", "r", "a", "r", "c", "h">>,
     <<"t", "a", "l", "a">>}

\* Talairach tested before MNI.
heuristic_space_tal_first(header, meta) ==
    LET combined == lower(strip(header \o <<" ">> \o meta))
    IN  IF combined = << >> THEN None
        ELSE IF \E token \in tal_tokens : contains(combined, token) THEN Some("TAL")
        ELSE IF contains(combined, <<"m", "n", "i">>) \/ contains(combined, <<"m", "o", "n", "t", "r", "e", "a", "l">>) THEN Some("MNI")
        ELSE IF contains(combined, <<"s", "p", "m">>) /\ contains(combined, <<"c", "o", "o", "r", "d", "i", "n", "a", "t", "e">>) THEN Some("MNI")
        ELSE None

\* _heuristic_space
heuristic_space(header, meta) ==
    LET combined == lower(strip(header \o <<" ">> \o meta))
    IN  IF combined = << >> THEN None
        ELSE IF contains(combined, <<"m", "n", "i">>) \/ contains(combined, <<"m", "o", "n", "t", "r", "e", "a", "l">>) THEN Some("MNI")
        ELSE IF \E token \in tal_tokens : contains(combined, token) THEN Some("TAL")
        ELSE IF contains(combined, <<"s", "p", "m">>) /\ contains(combined, <<"c", "o", "o", "r", "d", "i", "n", "a", "t", "e">>) THEN Some("MNI")
        ELSE None

\* header_text of _build_study: the column labels of a table, lowercased and
\* joined by blanks.
HeaderTexts ==
    {<< >>,
     <<"x", " ", "y", " ", "z">>,
     <<"x", " ", "(", "m", "n", "i", ")", " ", "y", " ", "z">>,
     <<"t", "a", "l", "a", "i", "r", "a", "c", "h", " ", "x", " ", "y", " ", "z">>,
     <<"c", "o", "o", "r", "d", "i", "n", "a", "t", "e">>,
     <<"r", "e", "g", "i", "o", "n", " ", "x", " ", "y", " ", "z", " ", "t">>}
\* _metadata_text: caption, label, legend, foot and reference sentences of
\* a table, joined by blanks.
MetaTexts ==
    {<< >>,
     <<"M", "N", "I", " ", "s", "p", "a", "c", "e">>,
     <<"T", "a", "l", "a", "i", "r", "a", "c", "h", " ", "c", "o", "o", "r", "d", "i", "n", "a", "t", "e", "s">>,
     <<"M", "o", "n", "t", "r", "e", "a", "l", " ", "a", "n", "d", " ", "T", "a", "l", "a", "i", "r", "a", "c", "h", " ", "a", "t", "l", "a", "s">>,
     <<"S", "P", "M", " ", "c", "o", "o", "r", "d", "i", "n", "a", "t", "e", " ", "t", "a", "b", "l", "e">>,
     <<"S", "P", "M", " ", "r", "e", "s", "u", "l", "t", "s">>,
     <<"P", "e", "a", "k", " ", "v", "o", "x", "e", "l", "s">>,
     <<"T", "A", "L", "A", "I", "R", "A", "C", "H">>,
     <<"T", "a", "l", "a", "i", "r", "a", "r", "c", "h">>,
     <<"t", "a", "l", "a", "i", "r", "a", "c">>,
     <<"C", "a", "t", "a", "l", "a", "n", " ", "s", "p", "e", "a", "k", "e", "r", "s">>,
     <<"O", "m", "n", "i", "b", "u", "s", " ", "t", "e", "s", "t">>,
     <<"s", "p", "m">>}

\* ---------------------------------------------------------------- state
VARIABLES
    has_cache,      \* download_articles' cache argument is not None
    has_callback,   \* download_articles' progress_callback argument is not None
    cache,          \* the cache's content: key -> payload or NoPayload
    max_retries,    \* ScienceDirectClient._max_retries
    max_wait,       \* Settings.max_rate_limit_wait
    pc,             \* position of the download_articles coroutine
    nrecords,       \* len(records)
    idx,            \* 1-based position of _runner's loop in records
    record,         \* the record _runner is processing
    attempts,       \* _download_record's attempt list for the current record
    ai,             \* 1-based position in attempts
    last_error,     \* _download_record's last_error
    results,        \* _runner's results list
    progress,       \* the calls made to _emit_progress, in order
    callbacks,      \* the calls made to progress_callback, in order
    events,         \* cache and HTTP operations made for the current record
    cpc,            \* position of the coroutine inside client._request
    attempt,        \* _request's attempt counter
    dispatches,     \* HTTP requests sent by the current _request call
    slept,          \* asyncio.sleep calls made by the current _request call
    last,           \* the latest response, its dispatch number and computed delay
    cres,           \* outcome of the current _request call
    concurrency,    \* Settings.concurrency
    sem_value,      \* ScienceDirectClient._semaphore: permits left
    co_pc,          \* concurrent callers: position of each coroutine in _request
    co_attempt,     \* concurrent callers: _request's attempt counter of each
    table,          \* the table element handed to _table_to_dataframe
    frame,          \* the DataFrame built from it, or NoFrame
    normalized,     \* what _normalize_table made of the DataFrame
    rl_response,    \* the response handed to get_retry_delay
    rl_now,         \* the wall clock when get_retry_delay reads it
    rl_delay,       \* what get_retry_delay returned
    header_text,    \* _build_study: header_text of the table
    meta_text,      \* _build_study: meta_text of the table
    coords,         \* _build_study: number of coordinate rows of the table
    guessed,        \* what _neurosynth_guess_space answers for the article
    space,          \* _build_study: space
    consulted,      \* _neurosynth_guess_space was called for the table
    points,         \* _build_study: the space label of each point of the table
    path_ino,       \* FileCache: the file that the name <digest>.bin refers to, 0 if none
    tmp_ino,        \* FileCache: the file that the name <digest>.tmp refers to, 0 if none
    ino_bytes,      \* the bytes of each file
    n_files,        \* files created so far
    n_sets,         \* FileCache.set calls started so far
    wr_pc,          \* position of each writer thread in _write_atomic
    wr_fd,          \* the file each writer thread has open
    got,            \* what the latest FileCache.get returned
    articles,       \* extract_coordinates: article_list
    extracted       \* extract_coordinates: what the call returned or raised

cfgVars == <<has_cache, has_callback, max_retries, max_wait>>
recordVars == <<record, attempts, ai, last_error>>
runnerVars == <<pc, nrecords, idx, results, progress, callbacks>>
clientVars == <<cpc, attempt, dispatches, slept, last, cres>>
poolVars == <<concurrency, sem_value, co_pc, co_attempt>>
delayVars == <<rl_response, rl_now, rl_delay>>
spaceVars == <<header_text, meta_text, coords, guessed, space, consulted, points>>
fileVars == <<path_ino, tmp_ino, ino_bytes, n_files, n_sets, wr_pc, wr_fd, got>>
studyVars == <<articles, extracted>>
evalVars == <<delayVars, spaceVars, fileVars, studyVars>>
extractVars == <<table, frame, normalized, evalVars>>
vars == <<cfgVars, cache, recordVars, runnerVars, events, clientVars, poolVars,
          extractVars>>

\* One operation made for the current record: a cache lookup ("get", with
\* what the cache held under the key), an HTTP dispatch ("http"), a cache
\* write ("set", with the bytes written) or the end of an identifier
\* attempt ("ok" / "fail", with the payload it had and where it came from).
Event(op, t, err, payload, via) ==
    [op |-> op, t |-> t, err |-> err, payload |-> payload, via |-> via]
Last(n, response, delay) == [n |-> n, response |-> response, delay |-> delay]
NoLast == Last(0, NoResponse, None)
\* Outcome of _request: the response returned or the exception raised.
ClientResult(kind, response, err) == [kind |-> kind, response |-> response, err |-> err]
NoClientResult == ClientResult("none", NoResponse, NoError)

\* ---------------------------------------------------- extract_coordinates
\* settings.Settings: the fields of the dataclass.
settings_fields ==
    {"api_key", "base_url", "timeout", "concurrency", "cache_dir", "user_agent",
     "insttoken", "http_proxy", "https_proxy", "use_proxy", "max_rate_limit_wait"}
\* Reading cfg.<name> succeeds for a field and raises AttributeError
\* otherwise.
has_setting(name) == name \in settings_fields
\* What extract_coordinates returned (the studies of the studyset) or
\* raised.
Extraction(kind, err, studies) == [kind |-> kind, err |-> err, studies |-> studies]
NoExtraction == Extraction("none", "", << >>)
\* _build_study: the study of one article; its tables, and so its
\* analyses, come from a payload that parses and holds a table, a payload
\* that does not parse yields no table.
build_study(article) ==
    [doi |-> article.doi,
     analyses |-> IF article.payload.wf /\ "table" \in article.payload.markers
                  THEN 1 ELSE 0]
\* indexed_results.sort(key=lambda pair: pair[0]); studies = [study ...]
sort_by_index(indexed) ==
    [i \in 1..Len(indexed) |->
        LET k == CHOOSE j \in 1..Len(indexed) : indexed[j][1] = i
        IN  indexed[k][2]]
\* The article lists handed to extract_coordinates; the doi of an article
\* is its position here.
ArticleLists ==
    UNION {{[i \in 1..n |-> [doi |-> i, payload |-> ps[i]]] : ps \in [1..n -> Payloads]} :
              n \in 0..MaxArticles}

\* ------------------------------------------------------------ cache.py
\* The threads asyncio.to_thread runs _write_atomic in, and the files they
\* can create.
Writers == 1..MaxWriters
Files == 1..(MaxCacheWrites + 1)
\* The data argument of FileCache.set: writer w stores w bytes of value w.
data_of(w) == [i \in 1..w |-> w]
\* The bytes of an entry that was stored before.
OldData == <<0>>
\* file.write(data) on a file opened at position 0: the bytes replace the
\* first len(data) bytes of the file.
write_at_start(bytes, data) ==
    data \o SubSeq(bytes, Len(data) + 1, Len(bytes))

\* ------------------------------------------------- ScienceDirectClient
Coroutines == 1..MaxCoroutines

\* ScienceDirectClient.__init__: concurrency = settings.concurrency or 1
init_concurrency(setting) ==
    IF setting = None \/ Val(setting) = 0 THEN 1 ELSE Val(setting)

\* A semaphore that never reports itself as locked.
semaphore_never_locked(value) == FALSE

\* asyncio.Semaphore.locked: no permit is left.
semaphore_locked(value) == value = 0

\* A semaphore whose permit stays taken when the block is left by an
\* exception.
semaphore_exit_leaking_on_error(value, raised) ==
    IF raised THEN value ELSE value + 1

\* async with self._semaphore, exit: the permit is released, whether the
\* block ends normally or by an exception.
semaphore_exit(value, raised) == value + 1

\* No response has been handed to get_retry_delay.
InitDelayState ==
    /\ rl_response = NoResponse
    /\ rl_now = 0
    /\ rl_delay = None

\* No table is having its space resolved.
InitSpaceState ==
    /\ header_text = << >>
    /\ meta_text = << >>
    /\ coords = 0
    /\ guessed = "UNKNOWN"
    /\ space = None
    /\ consulted = FALSE
    /\ points = << >>

\* An empty cache directory and no thread at work in it.
InitFileState ==
    /\ path_ino = 0
    /\ tmp_ino = 0
    /\ ino_bytes = [f \in Files |-> << >>]
    /\ n_files = 0
    /\ n_sets = 0
    /\ wr_pc = [w \in Writers |-> "idle"]
    /\ wr_fd = [w \in Writers |-> 0]
    /\ got = None

\* extract_coordinates has not been called.
InitStudyState ==
    /\ articles = << >>
    /\ extracted = NoExtraction

InitEvalState ==
    /\ InitDelayState
    /\ InitSpaceState
    /\ InitFileState
    /\ InitStudyState

\* No table is being processed.
InitExtractState ==
    /\ InitEvalState
    /\ table = NoTable
    /\ frame = NoFrame
    /\ normalized = NoFrame

\* The client of a single caller: the semaphore of the default setting and
\* no concurrent coroutine.
InitPoolState ==
    /\ InitExtractState
    /\ concurrency = None
    /\ sem_value = init_concurrency(None)
    /\ co_pc = [c \in Coroutines |-> "idle"]
    /\ co_attempt = [c \in Coroutines |-> 0]

\* _request up to the loop: attempt = 0.
request_begin ==
    /\ cpc' = "dispatch"
    /\ attempt' = 0
    /\ dispatches' = 0
    /\ slept' = 0
    /\ last' = NoLast
    /\ cres' = NoClientResult

\* _request: async with self._semaphore: await self._client.request(...)
ClientDispatch ==
    /\ cpc = "dispatch"
    /\ cpc' = "inflight"
    /\ dispatches' = dispatches + 1
    /\ events' = IF pc = "request"
                 THEN Append(events, Event("http", attempts[ai][1], NoError, NoPayload, ""))
                 ELSE events
    /\ UNCHANGED <<extractVars, poolVars, cfgVars, cache, recordVars, runnerVars, attempt, slept, last, cres>>

\* What the server may answer: anything to a direct caller of the client.
ServerResponses == IF pc = "client" THEN Responses ELSE DownloadResponses

\* _request after the response arrived: compute the delay, then either
\* sleep before the next attempt, raise for the status, or return.
ClientResponse ==
    /\ cpc = "inflight"
    /\ \E response \in ServerResponses, now \in Times :
        LET delay == get_retry_delay(response, now) IN
        /\ last' = Last(dispatches, response, delay)
        /\ IF should_retry(delay, response.status, attempt, max_retries)
           THEN /\ cpc' = "sleep"
                /\ UNCHANGED cres
           ELSE /\ cpc' = "done"
                /\ cres' = IF raises_for_status(response)
                           THEN ClientResult("raise", response,
                                    Error("HTTPStatusError", response.status, "status"))
                           ELSE ClientResult("response", response, NoError)
    /\ UNCHANGED <<extractVars, poolVars, cfgVars, cache, recordVars, runnerVars, events, attempt, dispatches, slept>>

\* The transport raises (a timeout): the exception leaves _request.
ClientTransportError ==
    /\ cpc = "inflight"
    /\ cpc' = "done"
    /\ cres' = ClientResult("raise", NoResponse, Error("TimeoutException", 0, "timeout"))
    /\ UNCHANGED <<extractVars, poolVars, cfgVars, cache, recordVars, runnerVars, events, attempt, dispatches, slept, last>>

\* await asyncio.sleep(delay); attempt += 1; continue
ClientWake ==
    /\ cpc = "sleep"
    /\ slept' = slept + 1
    /\ attempt' = attempt + 1
    /\ cpc' = "dispatch"
    /\ UNCHANGED <<extractVars, poolVars, cfgVars, cache, recordVars, runnerVars, events, dispatches, last, cres>>

\* A caller of ScienceDirectClient.request (get_json, get_xml).
ClientCall ==
    /\ pc = "client"
    /\ cpc = "idle"
    /\ request_begin
    /\ UNCHANGED <<extractVars, poolVars, cfgVars, cache, recordVars, runnerVars, events>>

\* The caller receives the response or the exception.
ClientReturn ==
    /\ pc = "client"
    /\ cpc = "done"
    /\ cpc' = "idle"
    /\ UNCHANGED <<extractVars, poolVars, cfgVars, cache, recordVars, runnerVars, events,
                   attempt, dispatches, slept, last, cres>>

InitClientState ==
    /\ cpc = "idle"
    /\ attempt = 0
    /\ dispatches = 0
    /\ slept = 0
    /\ last = NoLast
    /\ cres = NoClientResult

InitRunnerState ==
    /\ nrecords = 0
    /\ idx = 1
    /\ record = [doi |-> Absent, pmid |-> Absent]
    /\ attempts = << >>
    /\ ai = 1
    /\ last_error = NoError
    /\ results = << >>
    /\ progress = << >>
    /\ callbacks = << >>
    /\ events = << >>

\* A client constructed with some max_retries argument, used directly.
InitClient ==
    /\ pc = "client"
    /\ has_cache = FALSE
    /\ has_callback = FALSE
    /\ cache = EmptyCache
    /\ max_retries \in {init_max_retries(arg) : arg \in -1..MaxRetriesArg}
    /\ max_wait \in MaxWaits
    /\ InitRunnerState
    /\ InitClientState
    /\ InitPoolState

NextClient ==
    \/ ClientCall
    \/ ClientDispatch
    \/ ClientResponse
    \/ ClientTransportError
    \/ ClientWake
    \/ ClientReturn

SpecClient == InitClient /\ [][NextClient]_vars

\* The same client where every await completes: the semaphore is granted,
\* the transport answers or times out (httpx.Timeout), and asyncio.sleep
\* returns.
FairSpecClient ==
    /\ InitClient
    /\ [][NextClient]_vars
    /\ WF_vars(ClientDispatch)
    /\ WF_vars(ClientResponse \/ ClientTransportError)
    /\ WF_vars(ClientWake)

\* ------------------------------------- concurrent callers of one client
\* Values of Settings.concurrency: None, 0 and explicit limits.
ConcurrencySettings == {None, Some(0), Some(1), Some(2)}
\* What the server answers to the concurrent callers: success, not found, a
\* 429 with a Retry-After and a 500 without any delay header.
PoolResponses ==
    {Response(200, NoHdr, NoHdr, FullPayload, "none"),
     Response(404, NoHdr, NoHdr, NoPayload, "none"),
     Response(429, Hdr("num", 1), NoHdr, NoPayload, "none"),
     Response(500, NoHdr, NoHdr, NoPayload, "none")}

\* A coroutine calls client.request: _request up to the loop.
PoolCall ==
    /\ pc = "pool"
    /\ \E c \in Coroutines :
        /\ co_pc[c] = "idle"
        /\ co_pc' = [co_pc EXCEPT ![c] = "acquire"]
        /\ co_attempt' = [co_attempt EXCEPT ![c] = 0]
    /\ UNCHANGED <<extractVars, cfgVars, cache, recordVars, runnerVars, events, clientVars,
                   concurrency, sem_value>>

\* async with self._semaphore, entry: a permit is taken when one is left,
\* and the request is sent.
PoolAcquire ==
    /\ pc = "pool"
    /\ \E c \in Coroutines :
        /\ co_pc[c] = "acquire"
        /\ ~semaphore_locked(sem_value)
        /\ sem_value' = sem_value - 1
        /\ co_pc' = [co_pc EXCEPT ![c] = "inflight"]
    /\ UNCHANGED <<extractVars, cfgVars, cache, recordVars, runnerVars, events, clientVars,
                   concurrency, co_attempt>>

\* The response arrives: the async with block is left, which releases the
\* permit, and the response is examined as in ClientResponse.
PoolResponse ==
    /\ pc = "pool"
    /\ \E c \in Coroutines, response \in PoolResponses, now \in Times :
        LET delay == get_retry_delay(response, now) IN
        /\ co_pc[c] = "inflight"
        /\ sem_value' = semaphore_exit(sem_value, FALSE)
        /\ co_pc' = [co_pc EXCEPT ![c] =
                IF should_retry(delay, response.status, co_attempt[c], max_retries)
                THEN "sleep" ELSE "done"]
    /\ UNCHANGED <<extractVars, cfgVars, cache, recordVars, runnerVars, events, clientVars,
                   concurrency, co_attempt>>

\* The transport raises inside the async with block: the permit is
\* released while the exception leaves _request.
PoolTransportError ==
    /\ pc = "pool"
    /\ \E c \in Coroutines :
        /\ co_pc[c] = "inflight"
        /\ sem_value' = semaphore_exit(sem_value, TRUE)
        /\ co_pc' = [co_pc EXCEPT ![c] = "done"]
    /\ UNCHANGED <<extractVars, cfgVars, cache, recordVars, runnerVars, events, clientVars,
                   concurrency, co_attempt>>

\* await asyncio.sleep(delay); attempt += 1; continue
PoolWake ==
    /\ pc = "pool"
    /\ \E c \in Coroutines :
        /\ co_pc[c] = "sleep"
        /\ co_attempt' = [co_attempt EXCEPT ![c] = co_attempt[c] + 1]
        /\ co_pc' = [co_pc EXCEPT ![c] = "acquire"]
    /\ UNCHANGED <<extractVars, cfgVars, cache, recordVars, runnerVars, events, clientVars,
                   concurrency, sem_value>>

\* The coroutine that got its result calls the client again.
PoolReturn ==
    /\ pc = "pool"
    /\ \E c \in Coroutines :
        /\ co_pc[c] = "done"
        /\ co_pc' = [co_pc EXCEPT ![c] = "idle"]
    /\ UNCHANGED <<extractVars, cfgVars, cache, recordVars, runnerVars, events, clientVars,
                   concurrency, sem_value, co_attempt>>

\* One client constructed from some Settings.concurrency, shared by the
\* coroutines.
InitPool ==
    /\ pc = "pool"
    /\ has_cache = FALSE
    /\ has_callback = FALSE
    /\ cache = EmptyCache
    /\ max_retries \in {init_max_retries(arg) : arg \in 0..1}
    /\ max_wait = Some(DefaultMaxRateLimitWait)
    /\ InitRunnerState
    /\ InitClientState
    /\ InitExtractState
    /\ concurrency \in ConcurrencySettings
    /\ sem_value = init_concurrency(concurrency)
    /\ co_pc = [c \in Coroutines |-> "idle"]
    /\ co_attempt = [c \in Coroutines |-> 0]

NextPool ==
    \/ PoolCall
    \/ PoolAcquire
    \/ PoolResponse
    \/ PoolTransportError
    \/ PoolWake
    \/ PoolReturn

SpecPool == InitPool /\ [][NextPool]_vars

\* download_articles is not running and no client call is under way.
InitDownloadIdle ==
    /\ has_cache = FALSE
    /\ has_callback = FALSE
    /\ cache = EmptyCache
    /\ max_retries = 0
    /\ max_wait = Some(DefaultMaxRateLimitWait)
    /\ InitRunnerState
    /\ InitClientState
    /\ concurrency = None
    /\ sem_value = init_concurrency(None)
    /\ co_pc = [c \in Coroutines |-> "idle"]
    /\ co_attempt = [c \in Coroutines |-> 0]

\* ------------------------------------------------ table reconstruction
downloadVars == <<cfgVars, cache, recordVars, nrecords, idx, results, progress,
                  callbacks, events, clientVars, poolVars>>

\* _manual_extract_tables: df = _table_to_dataframe(table)
TableToDataframe ==
    /\ pc = "table"
    /\ frame' = table_to_dataframe(table)
    /\ pc' = "framed"
    /\ UNCHANGED <<table, normalized, evalVars, downloadVars>>

\* A table element found in a payload.
InitGrid ==
    /\ InitEvalState
    /\ pc = "table"
    /\ table \in Tables
    /\ frame = NoFrame
    /\ normalized = NoFrame
    /\ has_cache = FALSE
    /\ has_callback = FALSE
    /\ cache = EmptyCache
    /\ max_retries = 0
    /\ max_wait = Some(DefaultMaxRateLimitWait)
    /\ InitRunnerState
    /\ InitClientState
    /\ concurrency = None
    /\ sem_value = init_concurrency(None)
    /\ co_pc = [c \in Coroutines |-> "idle"]
    /\ co_attempt = [c \in Coroutines |-> 0]

NextGrid == TableToDataframe

\* A span-capable table with row spans of two and three rows.
InitRowSpan ==
    /\ InitEvalState
    /\ InitDownloadIdle
    /\ pc = "table"
    /\ table \in RowSpanTables
    /\ frame = NoFrame
    /\ normalized = NoFrame

SpecRowSpan == InitRowSpan /\ [][NextGrid]_vars

SpecGrid == InitGrid /\ [][NextGrid]_vars

\* -------------------------------------------------- header normalization
\* _extract_coordinates_from_dataframe: df = _normalize_table(df)
NormalizeTable ==
    /\ pc = "frame"
    /\ normalized' = normalize_table(frame)
    /\ pc' = "normalized"
    /\ UNCHANGED <<table, frame, evalVars, downloadVars>>

\* A DataFrame of a table, before its coordinates are extracted.
InitNormalize ==
    /\ InitEvalState
    /\ pc = "frame"
    /\ table = NoTable
    /\ frame \in Frames
    /\ normalized = NoFrame
    /\ has_cache = FALSE
    /\ has_callback = FALSE
    /\ cache = EmptyCache
    /\ max_retries = 0
    /\ max_wait = Some(DefaultMaxRateLimitWait)
    /\ InitRunnerState
    /\ InitClientState
    /\ concurrency = None
    /\ sem_value = init_concurrency(None)
    /\ co_pc = [c \in Coroutines |-> "idle"]
    /\ co_attempt = [c \in Coroutines |-> 0]

NextNormalize == NormalizeTable

SpecNormalize == InitNormalize /\ [][NextNormalize]_vars

\* ------------------------------------------------------ retry delay
\* _request: delay = rate_limits.get_retry_delay(response)
GetRetryDelay ==
    /\ pc = "headers"
    /\ rl_delay' = get_retry_delay(rl_response, rl_now)
    /\ pc' = "delayed"
    /\ UNCHANGED <<rl_response, rl_now, spaceVars, fileVars, studyVars, table, frame,
                   normalized, downloadVars>>

\* A response of the server and a reading of the clock.
InitDelay ==
    /\ InitDownloadIdle
    /\ table = NoTable
    /\ frame = NoFrame
    /\ normalized = NoFrame
    /\ rl_response \in Responses
    /\ rl_now \in Times
    /\ rl_delay = None
    /\ InitSpaceState
    /\ InitFileState
    /\ InitStudyState
    /\ pc = "headers"

NextDelay == GetRetryDelay

SpecDelay == InitDelay /\ [][NextDelay]_vars

\* ------------------------------------------------------ space of a table
\* What _neurosynth_guess_space returns.
GuessedSpaces == {"MNI", "TAL", "UNKNOWN"}

\* A classifier that is asked for every table.
needs_classifier_always(label) == TRUE

\* _build_study: if space is None
needs_classifier(label) == label = None

\* _build_study: if guessed != "UNKNOWN": space = guessed
guessed_space(label, guess) == IF guess # "UNKNOWN" THEN Some(guess) ELSE label

\* _build_study: if not coords: continue
NoCoordinates ==
    /\ pc = "coords"
    /\ coords = 0
    /\ pc' = "skipped"
    /\ UNCHANGED <<spaceVars, delayVars, fileVars, studyVars, table, frame, normalized,
                   downloadVars>>

\* _build_study: space = _heuristic_space(header_text, meta_text)
HeuristicSpace ==
    /\ pc = "coords"
    /\ coords # 0
    /\ space' = heuristic_space(header_text, meta_text)
    /\ pc' = "heuristic"
    /\ UNCHANGED <<header_text, meta_text, coords, guessed, consulted, points,
                   delayVars, fileVars, studyVars, table, frame, normalized, downloadVars>>

\* _build_study: the classifier fallback, then one point per coordinate
\* row, each with the table's space.
BuildPoints ==
    /\ pc = "heuristic"
    /\ consulted' = needs_classifier(space)
    /\ space' = IF needs_classifier(space) THEN guessed_space(space, guessed) ELSE space
    /\ points' = [i \in 1..coords |-> space']
    /\ pc' = "analysis"
    /\ UNCHANGED <<header_text, meta_text, coords, guessed,
                   delayVars, fileVars, studyVars, table, frame, normalized, downloadVars>>

\* A table of an article with its texts and coordinate rows, and the
\* classifier's answer for the article.
InitSpace ==
    /\ InitDownloadIdle
    /\ InitDelayState
    /\ InitFileState
    /\ InitStudyState
    /\ table = NoTable
    /\ frame = NoFrame
    /\ normalized = NoFrame
    /\ header_text \in HeaderTexts
    /\ meta_text \in MetaTexts
    /\ coords \in 0..MaxPoints
    /\ guessed \in GuessedSpaces
    /\ space = None
    /\ consulted = FALSE
    /\ points = << >>
    /\ pc = "coords"

NextSpace ==
    \/ NoCoordinates
    \/ HeuristicSpace
    \/ BuildPoints

SpecSpace == InitSpace /\ [][NextSpace]_vars

\* ------------------------------------------------- FileCache, one key
\* FileCache.set: asyncio.to_thread(self._write_atomic, path, data), then
\* tmp_path.write_bytes(data) opens <digest>.tmp for writing, which creates
\* the file or empties the one that has the name.
WriteOpen ==
    /\ pc = "cache"
    /\ n_sets < MaxCacheWrites
    /\ \E w \in Writers :
        /\ wr_pc[w] = "idle"
        /\ n_sets' = n_sets + 1
        /\ IF tmp_ino = 0
           THEN /\ n_files' = n_files + 1
                /\ tmp_ino' = n_files + 1
                /\ ino_bytes' = [ino_bytes EXCEPT ![n_files + 1] = << >>]
           ELSE /\ ino_bytes' = [ino_bytes EXCEPT ![tmp_ino] = << >>]
                /\ UNCHANGED <<n_files, tmp_ino>>
        /\ wr_fd' = [wr_fd EXCEPT ![w] = tmp_ino']
        /\ wr_pc' = [wr_pc EXCEPT ![w] = "opened"]
    /\ UNCHANGED <<path_ino, got, pc, delayVars, spaceVars, studyVars, table, frame,
                   normalized, downloadVars>>

\* tmp_path.write_bytes(data): the bytes go into the file the thread has
\* open, and the file is closed.
WriteBytes ==
    /\ pc = "cache"
    /\ \E w \in Writers :
        /\ wr_pc[w] = "opened"
        /\ ino_bytes' = [ino_bytes EXCEPT ![wr_fd[w]] = write_at_start(@, data_of(w))]
        /\ wr_pc' = [wr_pc EXCEPT ![w] = "written"]
    /\ UNCHANGED <<path_ino, tmp_ino, n_files, n_sets, wr_fd, got, pc, delayVars, spaceVars,
                   studyVars, table, frame, normalized, downloadVars>>

\* tmp_path.replace(path): the name <digest>.bin now refers to the file of
\* <digest>.tmp and the name <digest>.tmp is gone; FileNotFoundError when
\* there is no <digest>.tmp.
WriteReplace ==
    /\ pc = "cache"
    /\ \E w \in Writers :
        /\ wr_pc[w] = "written"
        /\ IF tmp_ino = 0
           THEN /\ wr_pc' = [wr_pc EXCEPT ![w] = "raised"]
                /\ UNCHANGED <<path_ino, tmp_ino>>
           ELSE /\ path_ino' = tmp_ino
                /\ tmp_ino' = 0
                /\ wr_pc' = [wr_pc EXCEPT ![w] = "done"]
    /\ UNCHANGED <<ino_bytes, n_files, n_sets, wr_fd, got, pc, delayVars, spaceVars,
                   studyVars, table, frame, normalized, downloadVars>>

\* FileCache.set returned or raised; the thread is free for the next call.
WriteEnd ==
    /\ pc = "cache"
    /\ \E w \in Writers :
        /\ wr_pc[w] \in {"done", "raised"}
        /\ wr_pc' = [wr_pc EXCEPT ![w] = "idle"]
        /\ wr_fd' = [wr_fd EXCEPT ![w] = 0]
    /\ UNCHANGED <<path_ino, tmp_ino, ino_bytes, n_files, n_sets, got, pc, delayVars,
                   spaceVars, studyVars, table, frame, normalized, downloadVars>>

\* FileCache.get: None when <digest>.bin does not exist, its bytes
\* otherwise.
CacheGet ==
    /\ pc = "cache"
    /\ got' = IF path_ino = 0 THEN None ELSE Some(ino_bytes[path_ino])
    /\ UNCHANGED <<path_ino, tmp_ino, ino_bytes, n_files, n_sets, wr_pc, wr_fd, pc,
                   delayVars, spaceVars, studyVars, table, frame, normalized, downloadVars>>

\* A cache directory in which the key is absent or was stored before.
InitFiles ==
    /\ InitDownloadIdle
    /\ InitDelayState
    /\ InitSpaceState
    /\ InitStudyState
    /\ table = NoTable
    /\ frame = NoFrame
    /\ normalized = NoFrame
    /\ pc = "cache"
    /\ \E old \in BOOLEAN :
        /\ path_ino = IF old THEN 1 ELSE 0
        /\ n_files = IF old THEN 1 ELSE 0
        /\ ino_bytes = [f \in Files |-> IF old /\ f = 1 THEN OldData ELSE << >>]
    /\ tmp_ino = 0
    /\ n_sets = 0
    /\ wr_pc = [w \in Writers |-> "idle"]
    /\ wr_fd = [w \in Writers |-> 0]
    /\ got = None

NextFiles ==
    \/ WriteOpen
    \/ WriteBytes
    \/ WriteReplace
    \/ WriteEnd
    \/ CacheGet

SpecFiles == InitFiles /\ [][NextFiles]_vars

\* ------------------------------------------ extract_coordinates, one call
\* extract_coordinates: an empty list returns an empty studyset at once;
\* otherwise cfg.extraction_workers is read first, then the studies are
\* built in this process or by a pool whose results arrive in any order and
\* are sorted by the position of their article.
ExtractCoordinates ==
    /\ pc = "articles"
    /\ pc' = "extracted"
    /\ IF articles = << >>
       THEN extracted' = Extraction("returned", "", << >>)
       ELSE IF ~has_setting("extraction_workers")
       THEN extracted' = Extraction("raised", "AttributeError", << >>)
       ELSE \E arrival \in Permutations(1..Len(articles)) :
               extracted' = Extraction("returned", "",
                   sort_by_index([k \in 1..Len(articles) |->
                       <<arrival[k], build_study(articles[arrival[k]])>>]))
    /\ UNCHANGED <<articles, delayVars, spaceVars, fileVars, table, frame, normalized,
                   downloadVars>>

\* The settings that get_settings loads, and a list of articles.
InitStudies ==
    /\ InitDownloadIdle
    /\ InitDelayState
    /\ InitSpaceState
    /\ InitFileState
    /\ table = NoTable
    /\ frame = NoFrame
    /\ normalized = NoFrame
    /\ articles \in ArticleLists
    /\ extracted = NoExtraction
    /\ pc = "articles"

NextStudies == ExtractCoordinates

SpecStudies == InitStudies /\ [][NextStudies]_vars

\* ---------------------------------------------------- download/api.py
\* cache.get(namespace, key) when a cache is configured, None otherwise.
cache_get_never_hits(configured, content, key) == NoPayload

\* A cache whose set loses the bytes.
cache_set_never_writes(configured, content, key, payload) == content

\* _download_identifier, "if cache is not None: await cache.set(...)":
\* FileCache.set replaces what the key's file holds by the payload.
\* A cache write made only for a payload that holds full text.
cache_set_full_text_only(configured, content, key, payload) ==
    IF configured /\ payload_contains_full_text(payload)
    THEN [content EXCEPT ![key] = payload] ELSE content

cache_set(configured, content, key, payload) ==
    IF configured THEN [content EXCEPT ![key] = payload] ELSE content

\* _download_identifier: the cache lookup.
cache_get(configured, content, key) ==
    IF configured THEN content[key] ELSE NoPayload

\* _is_invalid_view_error: the X-ELS-Status header or the body says that
\* the view parameter is not valid.
is_invalid_view_error(response) == response.view_err \in {"header", "body"}

\* _download_identifier, the except branch around client.request: a 400
\* that rejects the FULL view is re-raised with its own message.
translate_request_error(err, response) ==
    IF /\ err.cls = "HTTPStatusError"
       /\ response.status = 400
       /\ is_invalid_view_error(response)
    THEN Error("HTTPStatusError", response.status, "rejected FULL view")
    ELSE err

\* View validation that lets a cached payload through as STANDARD.
validate_view_trusting_cache(identifier, identifier_type, payload, fresh, status) ==
    LET full_text == payload_contains_full_text(payload)
        inferred_view == IF full_text THEN "FULL" ELSE "STANDARD"
    IN  IF ~full_text /\ fresh
        THEN Raised(Error("HTTPStatusError", status, "metadata-only payload"))
        ELSE Returned(Article(identifier_type, identifier, payload,
                              IF fresh THEN "https" ELSE "cache", inferred_view))

\* View validation that raises RuntimeError for a fetched payload too.
validate_view_runtime_error(identifier, identifier_type, payload, fresh, status) ==
    LET full_text == payload_contains_full_text(payload)
        inferred_view == IF full_text THEN "FULL" ELSE "STANDARD"
    IN  IF ~full_text
        THEN Raised(Error("RuntimeError", 0, "metadata-only payload"))
        ELSE Returned(Article(identifier_type, identifier, payload,
                              IF fresh THEN "https" ELSE "cache", inferred_view))

\* _download_identifier from "full_text = ..." on: the requested view is
\* always FULL, so a payload without full text raises, as an HTTPStatusError
\* carrying the response when it was fetched and as a RuntimeError when it
\* came from the cache. Otherwise the article is built.
validate_view(identifier, identifier_type, payload, fresh, status) ==
    LET full_text == payload_contains_full_text(payload)
        inferred_view == IF full_text THEN "FULL" ELSE "STANDARD"
    IN  IF ~full_text
        THEN IF fresh
             THEN Raised(Error("HTTPStatusError", status, "metadata-only payload"))
             ELSE Raised(Error("RuntimeError", 0, "metadata-only payload (cached)"))
        ELSE Returned(Article(identifier_type, identifier, payload,
                              IF fresh THEN "https" ELSE "cache", inferred_view))

\* Exception filter that lets only a 404 move on to the next identifier.
record_catches_only_404(err) == err.cls = "HTTPStatusError" /\ err.status = 404

\* _download_record: "except httpx.HTTPStatusError" around an attempt.
record_catches(err) == err.cls = "HTTPStatusError"

\* Exhausted attempts always raising the last error.
record_outcome_always_raises(err) ==
    IF err # NoError THEN Raised(err) ELSE NoDocument

\* _download_record after the loop: None when the last error is a 404, the
\* last error raised otherwise.
record_outcome(err) ==
    IF err # NoError /\ err.status = 404 THEN NoDocument
    ELSE IF err # NoError THEN Raised(err)
    ELSE NoDocument

\* A runner that puts each article in front of the earlier ones.
runner_results_prepending(res, out) ==
    IF out.kind = "article" THEN <<out.article>> \o res ELSE res

\* _runner: an article is appended to results; nothing else is.
runner_results(res, out) ==
    IF out.kind = "article" THEN Append(res, out.article) ELSE res

\* _runner: the one _emit_progress call made for the record.
runner_progress(prog, i, out) ==
    Append(prog, [rec |-> i, article |-> out.article, error |-> out.err])

\* Progress notification that is made for successful records only.
emit_progress_success_only(configured, calls, i, out) ==
    IF ~configured \/ out.kind # "article" THEN calls
    ELSE Append(calls, [rec |-> i, article |-> out.article, error |-> out.err])

\* _emit_progress: nothing without a callback, else one call of it with the
\* record, the article or None, and the exception or None.
emit_progress(configured, calls, i, out) ==
    IF ~configured THEN calls
    ELSE Append(calls, [rec |-> i, article |-> out.article, error |-> out.err])

\* A runner that stops at the first record that raised.
runner_after_record_fail_fast(out) ==
    IF out.kind = "raise" THEN "raised" ELSE "loop"

\* _runner, where control goes once a record's outcome is known: every
\* branch (the except clause included) goes on with the for loop.
runner_after_record(out) == "loop"

\* _runner, one loop iteration finished with outcome out.
RunnerFinish(out) ==
    /\ results' = runner_results(results, out)
    /\ progress' = runner_progress(progress, idx, out)
    /\ callbacks' = emit_progress(has_callback, callbacks, idx, out)
    /\ idx' = idx + 1
    /\ pc' = runner_after_record(out)
    /\ UNCHANGED nrecords

\* _download_record, what follows the result of one identifier attempt:
\* success returns the article with the record as its identifier_lookup, an HTTPStatusError is remembered and the
\* loop moves on, any other exception leaves _download_record.
AttemptResult(res) ==
    IF res.kind = "article"
    THEN /\ RunnerFinish(Returned([res.article EXCEPT !.rec = idx]))
         /\ UNCHANGED <<record, attempts, ai, last_error>>
    ELSE IF record_catches(res.err)
    THEN /\ last_error' = res.err
         /\ IF ai < Len(attempts)
            THEN /\ ai' = ai + 1
                 /\ pc' = "attempt"
                 /\ UNCHANGED <<record, attempts, nrecords, idx, results, progress, callbacks>>
            ELSE /\ RunnerFinish(record_outcome(res.err))
                 /\ UNCHANGED <<record, attempts, ai>>
    ELSE /\ RunnerFinish(res)
         /\ UNCHANGED <<record, attempts, ai, last_error>>

ResultEvent(t, res, payload, via) ==
    IF res.kind = "article" THEN Event("ok", t, NoError, payload, via)
    ELSE Event("fail", t, res.err, payload, via)

\* download_articles up to the first iteration of _runner.
DownloadArticles ==
    /\ pc = "idle"
    /\ \E n \in 0..MaxRecords :
        /\ nrecords' = n
        /\ pc' = IF n = 0 THEN "returned" ELSE "loop"
    /\ idx' = 1
    /\ results' = << >>
    /\ progress' = << >>
    /\ callbacks' = << >>
    /\ UNCHANGED <<extractVars, poolVars, cfgVars, cache, recordVars, events, clientVars>>

\* _runner takes the next record; _download_record builds its attempts and
\* raises ValueError when there are none.
StartRecord ==
    /\ pc = "loop"
    /\ idx <= nrecords
    /\ \E r \in Records :
        LET built == build_attempts(r) IN
        /\ record' = r
        /\ attempts' = built
        /\ ai' = 1
        /\ last_error' = NoError
        /\ IF built = << >>
           THEN /\ RunnerFinish(Raised(Error("ValueError", 0, "no identifier")))
                /\ events' = << >>
           ELSE /\ pc' = "attempt"
                /\ events' = << >>
                /\ UNCHANGED <<nrecords, idx, results, progress, callbacks>>
    /\ UNCHANGED <<extractVars, poolVars, cfgVars, cache, clientVars>>

\* _download_identifier up to client.request: the cache lookup and, on a
\* hit, everything that follows it.
AttemptStart ==
    /\ pc = "attempt"
    /\ LET t == attempts[ai][1]
           identifier == attempts[ai][2]
           cached == cache_get(has_cache, cache,
                               cache_key_for_identifier(identifier, t))
           key == cache_key_for_identifier(identifier, t)
           looked == IF has_cache
                     THEN <<Event("get", t, NoError, cache[key], "")>> ELSE << >>
       IN  IF cached.present
           THEN LET res == validate_view(identifier, t, cached, FALSE, 0) IN
                /\ AttemptResult(res)
                /\ events' = events \o looked \o <<ResultEvent(t, res, cached, "cache")>>
                /\ UNCHANGED clientVars
           ELSE /\ pc' = "request"
                /\ events' = events \o looked
                /\ request_begin
                /\ UNCHANGED <<recordVars, nrecords, idx, results, progress, callbacks>>
    /\ UNCHANGED <<extractVars, poolVars, cfgVars, cache>>

\* _download_identifier after client.request: the error translation, or the
\* cache write followed by the view validation.
AttemptFinish ==
    /\ pc = "request"
    /\ cpc = "done"
    /\ cpc' = "idle"
    /\ LET t == attempts[ai][1]
           identifier == attempts[ai][2]
           key == cache_key_for_identifier(identifier, t)
       IN  IF cres.kind = "raise"
           THEN LET res == Raised(translate_request_error(cres.err, cres.response)) IN
                /\ AttemptResult(res)
                /\ events' = Append(events, ResultEvent(t, res, NoPayload, "https"))
                /\ UNCHANGED cache
           ELSE LET payload == cres.response.payload
                    res == validate_view(identifier, t, payload, TRUE, cres.response.status)
                    stored == IF has_cache
                              THEN <<Event("set", t, NoError, payload, "")>> ELSE << >>
                IN  /\ cache' = cache_set(has_cache, cache, key, payload)
                    /\ AttemptResult(res)
                    /\ events' = events \o stored \o <<ResultEvent(t, res, payload, "https")>>
    /\ UNCHANGED <<extractVars, poolVars, cfgVars, attempt, dispatches, slept, last, cres>>

\* _runner: return results.
Return ==
    /\ pc = "loop"
    /\ idx > nrecords
    /\ pc' = "returned"
    /\ UNCHANGED <<extractVars, poolVars, cfgVars, cache, recordVars, nrecords, idx, results, progress,
                   callbacks, events, clientVars>>

\* max_retries arguments of the client that download_articles is given.
DownloadRetryArgs == {-1, 1}

\* A client and, optionally, a cache directory with earlier content, before
\* download_articles is called.
Init ==
    /\ pc = "idle"
    /\ has_cache \in BOOLEAN
    /\ has_callback \in BOOLEAN
    /\ cache \in IF has_cache THEN InitialCaches ELSE {EmptyCache}
    /\ max_retries \in {init_max_retries(arg) : arg \in DownloadRetryArgs}
    /\ max_wait = Some(DefaultMaxRateLimitWait)
    /\ InitRunnerState
    /\ InitClientState
    /\ InitPoolState

Next ==
    \/ DownloadArticles
    \/ StartRecord
    \/ AttemptStart
    \/ ClientDispatch
    \/ ClientResponse
    \/ ClientTransportError
    \/ ClientWake
    \/ AttemptFinish
    \/ Return

Spec == Init /\ [][Next]_vars

\* =============================================================== claims

\* The identifiers a record carries, read off the record itself.
DoiOf(r) == strip(get_or_empty(r.doi))
PmidOf(r) == strip(get_or_empty(r.pmid))
HasBoth(r) == DoiOf(r) # << >> /\ PmidOf(r) # << >> /\ DoiOf(r) # PmidOf(r)

EventIdx == 1..Len(events)
\* The latest record has been processed and nothing newer has started.
RecordFinished ==
    /\ pc \in {"loop", "returned"}
    /\ progress # << >>
    /\ progress[Len(progress)].rec = idx - 1
LastProgress == progress[Len(progress)]
IsStatusError(e) == e.cls = "HTTPStatusError"
AttemptEnded(i) == events[i].op \in {"ok", "fail"}

\* C1: for a record with a doi and a distinct pmid, nothing is done for the
\* pmid before the doi attempt has ended, and once the doi attempt has
\* succeeded (from the cache or over HTTP) there is no cache lookup and no
\* HTTP request for the pmid.
C1_DoiFirstAndSuccessStops ==
    (pc # "client" /\ HasBoth(record)) =>
        /\ \A i \in EventIdx :
              events[i].t = "pmid" =>
                  \E j \in 1..(i - 1) : events[j].t = "doi" /\ AttemptEnded(j)
        /\ (\E j \in EventIdx : events[j].t = "doi" /\ events[j].op = "ok") =>
              /\ \A i \in EventIdx : events[i].t # "pmid"
              /\ pc \notin {"attempt", "request"}
        /\ pc \in {"attempt", "request"} /\ events = << >> => attempts[ai][1] = "doi"

\* C1 witness: a record with both identifiers finished after its doi was
\* fetched over HTTP.
C1_Witness ==
    /\ HasBoth(record)
    /\ RecordFinished
    /\ \E j \in EventIdx :
          events[j].t = "doi" /\ events[j].op = "ok" /\ events[j].via = "https"
    /\ LastProgress.article # NoArticle

Is404(e) == IsStatusError(e) /\ e.status = 404
FailedWith404(t) ==
    \E i \in EventIdx : events[i].t = t /\ events[i].op = "fail" /\ Is404(events[i].err)

\* C2: when the doi attempt and the pmid attempt of a record both end with
\* HTTP 404, the record resolves to "no document": its progress
\* notification carries neither an article nor an error and results holds
\* no article of that record.
C2_Both404IsNoDocument ==
    (RecordFinished /\ FailedWith404("doi") /\ FailedWith404("pmid")) =>
        /\ LastProgress.article = NoArticle
        /\ LastProgress.error = NoError
        /\ \A k \in 1..Len(results) : results[k].rec # idx - 1

\* C2 witness: a finished record whose two attempts both ended with 404.
C2_Witness ==
    /\ RecordFinished
    /\ HasBoth(record)
    /\ FailedWith404("doi")
    /\ FailedWith404("pmid")

IsOtherStatusError(e) == IsStatusError(e) /\ e.status # 404
\* The record's outcome is "no document".
ResolvedNoDocument ==
    /\ RecordFinished
    /\ LastProgress.article = NoArticle
    /\ LastProgress.error = NoError
\* The record's outcome is the exception e.
ResolvedError(e) ==
    /\ RecordFinished
    /\ LastProgress.article = NoArticle
    /\ LastProgress.error = e
\* After the doi attempt that ended at event i, the pmid is attempted.
PmidFollows(i) ==
    IF i = Len(events)
    THEN pc \in {"attempt", "request"} /\ ai = 2 /\ attempts[ai][1] = "pmid"
    ELSE events[i + 1].t = "pmid"

\* C3 as claimed: an HTTP status error other than 404 ends the record at
\* once, no later identifier is attempted and the error is the outcome.
C3_Claim_OtherStatusAborts ==
    pc # "client" =>
        \A i \in EventIdx :
            (events[i].op = "fail" /\ IsOtherStatusError(events[i].err)) =>
                /\ i = Len(events)
                /\ ResolvedError(events[i].err)

\* C3 amended: an HTTP status error other than 404 does not end the record;
\* raised by the doi attempt of a record that also has a distinct pmid, it is
\* remembered and the pmid is attempted next; raised by the record's last
\* attempt, it is the record's outcome.
C3_OtherStatusMovesOn ==
    pc # "client" =>
        \A i \in EventIdx :
            (events[i].op = "fail" /\ IsOtherStatusError(events[i].err)) =>
                IF events[i].t = "doi" /\ HasBoth(record)
                THEN /\ PmidFollows(i)
                     /\ i = Len(events) => last_error = events[i].err
                ELSE /\ i = Len(events)
                     /\ ResolvedError(events[i].err)

\* C3 witness: the doi attempt failed with status 500 and the pmid was
\* then fetched successfully.
C3_Witness ==
    /\ RecordFinished
    /\ HasBoth(record)
    /\ \E i \in EventIdx :
          /\ events[i].t = "doi" /\ events[i].op = "fail"
          /\ IsStatusError(events[i].err) /\ events[i].err.status = 500
    /\ \E j \in EventIdx : events[j].t = "pmid" /\ events[j].op = "ok"

\* C4 as claimed: a record resolves to "no document" only when every one of
\* its identifier attempts ended with a 404.
C4_Claim_NoDocumentOnlyAfter404s ==
    (ResolvedNoDocument /\ events # << >>) =>
        \A i \in EventIdx : events[i].op = "fail" => Is404(events[i].err)

FullTextMarkers == {"body", "section", "para", "simple-para", "table"}
NoStructuralMarker(payload) == payload.present /\ payload.markers \cap FullTextMarkers = {}

\* C5: an attempt whose key the configured cache holds ends right after the
\* lookup, with the cached bytes as its payload: no HTTP dispatch and no
\* cache write lies between the lookup and the end of the attempt, and an
\* article it returns carries the cached bytes.
C5_CacheHitSkipsNetwork ==
    pc # "client" =>
        \A i \in EventIdx :
            (events[i].op = "get" /\ events[i].payload.present) =>
                /\ i < Len(events)
                /\ events[i + 1].t = events[i].t
                /\ AttemptEnded(i + 1)
                /\ events[i + 1].via = "cache"
                /\ events[i + 1].payload = events[i].payload
                /\ cache[cache_key_for_identifier(attempts[ai][2], events[i].t)]
                       = events[i].payload
                /\ events[i + 1].op = "ok" =>
                      /\ RecordFinished
                      /\ LastProgress.article.payload = events[i].payload
                      /\ LastProgress.article.transport = "cache"

\* C5 witness: a record served from the cache.
C5_Witness ==
    /\ RecordFinished
    /\ has_cache
    /\ \E i \in EventIdx : events[i].op = "get" /\ events[i].payload.present
    /\ LastProgress.article # NoArticle
    /\ LastProgress.article.transport = "cache"

\* An identifier attempt ended at event i on a payload without any
\* full-text structural marker.
EndedOnMetadataOnly(i) == AttemptEnded(i) /\ NoStructuralMarker(events[i].payload)

\* C6 as claimed: a payload without structural markers raises the
\* view-mismatch error when fetched, and is accepted when it came from the
\* cache, giving an article whose obtained view is not FULL.
C6_Claim_CachedMetadataOnlyAccepted ==
    pc # "client" =>
        \A i \in EventIdx :
            EndedOnMetadataOnly(i) =>
                IF events[i].via = "https"
                THEN /\ events[i].op = "fail"
                     /\ IsStatusError(events[i].err)
                     /\ events[i].err.msg = "metadata-only payload"
                ELSE /\ events[i].op = "ok"
                     /\ RecordFinished
                     /\ LastProgress.article.view_obtained # "FULL"

\* C6 amended: a payload without structural markers is rejected on both
\* paths: fetched, it raises the view-mismatch HTTPStatusError; served from
\* the cache, it raises a RuntimeError with the same message, and no article
\* is returned for it.
C6_MetadataOnlyRejectedOnBothPaths ==
    pc # "client" =>
        /\ \A i \in EventIdx :
            EndedOnMetadataOnly(i) =>
                /\ events[i].op = "fail"
                /\ IF events[i].via = "https"
                   THEN /\ IsStatusError(events[i].err)
                        /\ events[i].err.msg = "metadata-only payload"
                   ELSE /\ events[i].err.cls = "RuntimeError"
                        /\ events[i].err.msg = "metadata-only payload (cached)"
                        /\ ResolvedError(events[i].err)
        /\ \A k \in 1..Len(results) : ~NoStructuralMarker(results[k].payload)

\* C6 witness: one record whose doi was fetched as metadata only and whose
\* pmid was served from the cache as metadata only.
C6_Witness ==
    /\ RecordFinished
    /\ \E i \in EventIdx : EndedOnMetadataOnly(i) /\ events[i].via = "https"
    /\ \E j \in EventIdx : EndedOnMetadataOnly(j) /\ events[j].via = "cache"

\* The doi attempt ended at event i on a fetched payload that failed the
\* view validation.
DoiViewMismatch(i) ==
    /\ events[i].t = "doi"
    /\ events[i].op = "fail"
    /\ events[i].via = "https"
    /\ events[i].payload.present

\* C7 as claimed: a fetched doi payload that fails the view validation ends
\* the record, the pmid is not attempted afterwards.
C7_Claim_ViewMismatchEndsRecord ==
    pc # "client" =>
        \A i \in EventIdx :
            DoiViewMismatch(i) =>
                /\ i = Len(events)
                /\ pc \notin {"attempt", "request"}

\* C7 amended: the view-not-honored failure of a fetched doi payload is an
\* HTTPStatusError and is handled like one: when the record has a distinct
\* pmid that pmid is attempted next, and the failure ends the record, as its
\* outcome, only when the record has no further identifier.
C7_ViewMismatchMovesOn ==
    pc # "client" =>
        \A i \in EventIdx :
            DoiViewMismatch(i) =>
                /\ IsStatusError(events[i].err)
                /\ IF HasBoth(record)
                   THEN PmidFollows(i)
                   ELSE i = Len(events) /\ ResolvedError(events[i].err)

\* C7 witness: after the doi's view mismatch the pmid was requested over
\* HTTP.
C7_Witness ==
    /\ HasBoth(record)
    /\ \E i \in EventIdx :
          /\ DoiViewMismatch(i)
          /\ \E j \in (i + 1)..Len(events) :
                events[j].t = "pmid" /\ events[j].op = "http"

\* ------------------------------------------------- claims on the client

\* The latest response answers the latest dispatch and has been examined.
Answered == last.n = dispatches /\ last.n >= 1 /\ cpc # "inflight"
CallEnded == cpc \in {"done", "idle"}
RaisedStatusOf(response) ==
    /\ cres.kind = "raise"
    /\ cres.err.cls = "HTTPStatusError"
    /\ cres.err.status = response.status
\* The delay the response's headers ask for exceeds the configured maximum.
ExceedsMaxWait ==
    /\ max_wait # None
    /\ last.delay # None
    /\ Val(last.delay) > Val(max_wait)

\* C8 as claimed: a 429, 500 or 503 response whose retry delay is larger
\* than the configured maximum wait makes the call raise an HTTP status
\* error saying that the wait exceeds the configured maximum, without
\* sleeping and without another dispatch.
C8_Claim_ExceedingWaitRaises ==
    (Answered /\ last.response.status \in RetryableStatuses /\ ExceedsMaxWait) =>
        /\ CallEnded
        /\ cres.kind = "raise"
        /\ cres.err.cls = "HTTPStatusError"
        /\ cres.err.msg = "exceeds configured maximum"

\* The counters of one _request call: at most max_retries + 1 dispatches,
\* one sleep per retry, and the HTTP status error of the response raised
\* when dispatch number max_retries + 1 is answered with a retryable status.
BoundedDispatches ==
    /\ dispatches <= max_retries + 1
    /\ attempt <= max_retries
    /\ slept = attempt
    /\ cpc = "dispatch" => dispatches = attempt
    /\ cpc \in {"inflight", "sleep", "done"} => dispatches = attempt + 1
    /\ cpc = "sleep" => dispatches <= max_retries
    /\ (Answered /\ dispatches = max_retries + 1
            /\ last.response.status \in RetryableStatuses) =>
          /\ CallEnded
          /\ RaisedStatusOf(last.response)

\* C9: one call of _request sends at most max_retries + 1 requests and then
\* ends, whatever the server answers; when the last allowed dispatch is
\* answered with a retryable status the call raises the HTTP status error
\* of that response.
C9_BoundedDispatchesThenEnds ==
    /\ []BoundedDispatches
    /\ (cpc \in {"dispatch", "inflight", "sleep"}) ~> (cpc = "done")

\* C9 witness: after at least one retry the last allowed dispatch was
\* answered with a retryable status carrying a delay, and the call raised.
C9_Witness ==
    /\ pc = "client"
    /\ max_retries >= 1
    /\ dispatches = max_retries + 1
    /\ Answered
    /\ last.response.status \in RetryableStatuses
    /\ last.delay # None
    /\ cpc = "done"
    /\ RaisedStatusOf(last.response)

\* A delay can be computed from the response's headers: a Retry-After that
\* is a number or a date, or, without a Retry-After, a reset time that lies
\* in the future.
HeadersGiveDelay(response) ==
    \/ response.retry_after.kind \in {"num", "date"}
    \/ /\ response.retry_after.kind \in {"absent", "empty"}
       /\ response.reset.kind = "num"
       /\ \E now \in Times : response.reset.v > now

\* C10: the client sleeps and re-dispatches only after a 429, 500 or 503
\* response for which a delay was computed; a 429/500/503 response without
\* a computable delay, and any other 4xx/5xx response whatever its
\* Retry-After header, ends the call with the HTTP status error of that
\* response and no further dispatch (one dispatch when it answers the first).
C10_RetryOnlyRetryableWithDelay ==
    /\ cpc = "sleep" =>
          /\ last.response.status \in RetryableStatuses
          /\ last.delay # None
          /\ HeadersGiveDelay(last.response)
    /\ dispatches >= 2 =>
          /\ slept >= dispatches - 1
          /\ \/ last.response.status \in RetryableStatuses
             \/ last.n = dispatches
    /\ (Answered /\ last.response.status >= 400
            /\ (\/ last.response.status \notin RetryableStatuses
                \/ ~HeadersGiveDelay(last.response))) =>
          /\ CallEnded
          /\ RaisedStatusOf(last.response)
          /\ last.n = 1 => dispatches = 1 /\ slept = 0

\* C10 witness: a 404 carrying a numeric Retry-After was raised after one
\* dispatch.
C10_Witness ==
    /\ pc = "client"
    /\ cpc = "done"
    /\ dispatches = 1
    /\ max_retries >= 1
    /\ last.response.status = 404
    /\ last.response.retry_after.kind = "num"
    /\ RaisedStatusOf(last.response)

\* ------------------------------------------------- claims on the runner

\* download_articles is running or has returned.
InDownload == pc \in {"loop", "attempt", "request", "returned"}
HasArticle(e) == e.article # NoArticle
RECURSIVE ArticlesOf(_)
\* The articles carried by a sequence of notifications, in order.
ArticlesOf(calls) ==
    IF calls = << >> THEN << >>
    ELSE LET rest == ArticlesOf(SubSeq(calls, 1, Len(calls) - 1))
             e == calls[Len(calls)]
         IN  IF HasArticle(e) THEN Append(rest, e.article) ELSE rest
\* Record k of the list ended with an exception.
RecordFailed(k) == k \in 1..Len(progress) /\ progress[k].error # NoError

OutcomeMatchesEvents(e) ==
    IF events = << >>
    THEN e.article = NoArticle /\ e.error.cls = "ValueError"
    ELSE LET ev == events[Len(events)] IN
         /\ AttemptEnded(Len(events))
         /\ IF ev.op = "ok"
            THEN /\ HasArticle(e)
                 /\ e.article.payload = ev.payload
                 /\ e.article.id_type = ev.t
                 /\ e.error = NoError
            ELSE /\ e.article = NoArticle
                 /\ e.error = IF Is404(ev.err) THEN NoError ELSE ev.err

\* C13: with a progress callback, the callback is called exactly once per
\* record, in input order, once the record has finished and before the
\* next record is started; it gets the article and no error on success,
\* neither on "no document", and the exception on failure.
C13_CallbackOncePerRecordInOrder ==
    (has_callback /\ pc # "idle") =>
        /\ InDownload
        /\ Len(callbacks) = idx - 1
        /\ \A k \in 1..Len(callbacks) :
              /\ callbacks[k].rec = k
              /\ HasArticle(callbacks[k]) =>
                    /\ callbacks[k].error = NoError
                    /\ callbacks[k].article.rec = k
        /\ pc = "returned" => Len(callbacks) = nrecords
        /\ ArticlesOf(callbacks) = results
        /\ (pc \in {"loop", "returned"} /\ callbacks # << >>) =>
              OutcomeMatchesEvents(callbacks[Len(callbacks)])

\* C13 witness: two records done, the callback called for a "no document"
\* and then for a failure.
C13_Witness ==
    /\ has_callback
    /\ pc = "returned"
    /\ Len(callbacks) = 2
    /\ callbacks[1].article = NoArticle /\ callbacks[1].error = NoError
    /\ callbacks[2].article = NoArticle /\ callbacks[2].error.cls = "TimeoutException"

\* C14 as claimed: when a record raises, the callback is called once with
\* the record, no article and the exception, and download_articles then
\* ends by raising that exception.
C14_Claim_ExceptionPropagates ==
    (RecordFinished /\ LastProgress.error # NoError) =>
        /\ has_callback =>
              /\ Len(callbacks) = Len(progress)
              /\ callbacks[Len(callbacks)].article = NoArticle
              /\ callbacks[Len(callbacks)].error = LastProgress.error
        /\ pc = "raised"

NoIdentifier(r) == DoiOf(r) = << >> /\ PmidOf(r) = << >>

\* C15: a record whose doi and pmid are both absent, empty or blank ends
\* with the ValueError of the input validation: no identifier attempt is
\* started for it, so no cache lookup, no HTTP request and no cache write
\* is made, and the runner moves to the next record.
C15_NoIdentifierFailsBeforeAnyLookup ==
    pc # "client" =>
        /\ pc \in {"attempt", "request"} =>
              /\ ~NoIdentifier(record)
              /\ attempts # << >>
        /\ (RecordFinished /\ NoIdentifier(record)) =>
              /\ events = << >>
              /\ attempts = << >>
              /\ LastProgress.article = NoArticle
              /\ LastProgress.error.cls = "ValueError"
              /\ Len(progress) = idx - 1

\* C15 witness: a record with a blank doi and an empty pmid has failed.
C15_Witness ==
    /\ RecordFinished
    /\ record = [doi |-> <<" ">>, pmid |-> << >>]
    /\ LastProgress.error.cls = "ValueError"

\* The key of the attempt of type t of the current record.
KeyOfType(t) ==
    LET i == CHOOSE j \in 1..Len(attempts) : attempts[j][1] = t
    IN  cache_key_for_identifier(attempts[i][2], t)
ArticleKey(a) == cache_key_for_identifier(a.id, a.id_type)
\* Position in the list of the record the events belong to.
CurrentRecord == IF pc \in {"attempt", "request"} THEN idx ELSE idx - 1
\* An earlier record of this call fetched the key over HTTP.
FetchedEarlier(key) ==
    \E k \in 1..Len(results) :
        /\ results[k].rec < CurrentRecord
        /\ results[k].transport = "https"
        /\ ArticleKey(results[k]) = key

\* C16: with a cache, the bytes of every 200 response are written under
\* the identifier's "{type}:{value}" key when the response arrives, a
\* key's bytes never change afterwards, and a later record naming an
\* identifier that an earlier record fetched gets those bytes from the
\* cache without an HTTP request.
C16_FetchedOnceThenServedFromCache ==
    /\ [](has_cache =>
            /\ \A k \in 1..Len(results) :
                  cache[ArticleKey(results[k])] = results[k].payload
            /\ \A i \in EventIdx :
                  (events[i].op \in {"http", "set"}) => ~FetchedEarlier(KeyOfType(events[i].t))
            /\ \A k, l \in 1..Len(results) :
                  (k < l /\ ArticleKey(results[k]) = ArticleKey(results[l])) =>
                      /\ results[l].transport = "cache"
                      /\ results[l].payload = results[k].payload)
    /\ [][(has_cache /\ pc = "request" /\ cpc = "done" /\ cres.kind = "response") =>
             cache'[cache_key_for_identifier(attempts[ai][2], attempts[ai][1])]
                 = cres.response.payload]_vars
    /\ [][\A key \in CacheKeys : cache[key].present => cache'[key] = cache[key]]_vars

\* C16 witness: the second record was served from the cache with what the
\* first record had fetched over HTTP for the same identifier.
C16_Witness ==
    /\ has_cache
    /\ Len(results) = 2
    /\ results[1].transport = "https"
    /\ results[2].transport = "cache"
    /\ ArticleKey(results[1]) = ArticleKey(results[2])
    /\ results[1].rec = 1 /\ results[2].rec = 2

\* ------------------------------------- claims on the concurrent callers

\* The requests that are in flight: sent and not yet answered.
InFlight == {c \in Coroutines : co_pc[c] = "inflight"}
\* The limit the setting stands for: 1 when it is None or 0.
ConfiguredLimit == IF concurrency \in {None, Some(0)} THEN 1 ELSE Val(concurrency)

\* C11: however many coroutines call the client, the number of requests in
\* flight never exceeds the configured concurrency (1 when the setting is 0
\* or None): permits left plus requests in flight is always that limit.
C11_InFlightWithinConcurrency ==
    pc = "pool" =>
        /\ Cardinality(InFlight) <= ConfiguredLimit
        /\ sem_value >= 0
        /\ sem_value + Cardinality(InFlight) = ConfiguredLimit

\* C11 witness: with a limit of 2 and three callers, two requests are in
\* flight and the third caller waits for a permit.
C11_Witness ==
    /\ pc = "pool"
    /\ concurrency = Some(2)
    /\ Cardinality(InFlight) = 2
    /\ \E c \in Coroutines : co_pc[c] = "acquire" /\ co_attempt[c] = 1

\* ------------------------------------------ claims on table reconstruction

\* Number of entry cells of a row element.
EntryCount(row) == Cardinality({i \in 1..Len(row) : row[i].entry})
\* The DataFrame came out of the span-capable form.
FromCals == table.form = "cals" /\ table.colspecs # << >> /\ Len(table.rows) >= 2
\* n is the length of the longest row of the table.
LongestRowIs(n) ==
    /\ \A k \in 1..Len(table.rows) : EntryCount(table.rows[k]) <= n
    /\ \E k \in 1..Len(table.rows) : EntryCount(table.rows[k]) = n

\* C17: every DataFrame built from a table is rectangular. From the
\* span-capable form it has one row per row element and each row has one
\* cell per colspec, whatever spans, unknown column names and surplus cells
\* the rows have; from the simple form the column labels and every row
\* have the length of the longest row.
C17_GridIsRectangular ==
    (pc = "framed" /\ frame # NoFrame) =>
        /\ \A r \in 1..Len(frame.rows) :
              DOMAIN frame.rows[r] = 1..Len(frame.columns)
        /\ IF FromCals
           THEN /\ Len(frame.columns) = Len(table.colspecs)
                /\ Len(frame.rows) = Len(table.rows)
           ELSE LongestRowIs(Len(frame.columns))

\* C17 witness: a two-column table one of whose rows holds the 2x2 span
\* followed by a cell with an unknown column name and a colspan of 3.
C17_Witness ==
    /\ pc = "framed"
    /\ frame # NoFrame
    /\ table.form = "cals"
    /\ Len(table.colspecs) = 2
    /\ \E k \in 1..Len(table.rows) :
          /\ Len(table.rows[k]) = 2
          /\ table.rows[k][1] = SpanCell
          /\ table.rows[k][2].colname = UnknownName

\* The cells other than the span are plain ones or are no entries.
OtherCell(c) == c = PlainCell("a") \/ ~c.entry
\* Row r of the table starts with the one 2x2 span of the table, a row
\* follows it, the columns c1 and c2 are declared and every other cell is
\* a plain one.
OneSpanAt(r) ==
    /\ table.form = "cals"
    /\ Len(table.colspecs) >= 2
    /\ table.colspecs[1] = ColName(1) /\ table.colspecs[2] = ColName(2)
    /\ r \in 1..(Len(table.rows) - 1)
    /\ table.rows[r] # << >>
    /\ table.rows[r][1] = SpanCell
    /\ \A k \in 1..Len(table.rows) : \A i \in 1..Len(table.rows[k]) :
          (k # r \/ i # 1) => OtherCell(table.rows[k][i])
\* Row k of the grid holds texts from column `from` on and is blank from
\* there on where no text is left.
HoldsFrom(k, from, texts) ==
    \A i \in from..Len(frame.columns) :
        frame.rows[k][i] = IF i - from + 1 <= Len(texts) THEN texts[i - from + 1] ELSE ""
\* The positions the span does not cover hold the row's own cells.
OthersUnaffected(r) ==
    /\ HoldsFrom(r, 3, row_texts(Tail(table.rows[r])))
    /\ HoldsFrom(r + 1, 3, row_texts(table.rows[r + 1]))
    /\ \A k \in 1..Len(table.rows) :
          k \notin {r, r + 1} => HoldsFrom(k, 1, row_texts(table.rows[k]))

\* C18 as claimed: the text of a cell that spans 2 rows and 2 columns is in
\* all 4 grid positions it covers, the other positions are unaffected.
C18_Claim_SpanTextInAllFour ==
    pc = "framed" =>
        \A r \in 1..MaxRows :
            OneSpanAt(r) =>
                /\ frame # NoFrame
                /\ frame.rows[r][1] = "s" /\ frame.rows[r][2] = "s"
                /\ frame.rows[r + 1][1] = "s" /\ frame.rows[r + 1][2] = "s"
                /\ OthersUnaffected(r)

\* C18 amended: the text of a cell that spans 2 rows and 2 columns is in 3
\* of the 4 positions it covers: the first covered column of its own row
\* and both covered columns of the next row; the second covered column of
\* its own row is blank; the other positions are unaffected.
C18_SpanTextInThreeOfFour ==
    pc = "framed" =>
        \A r \in 1..MaxRows :
            OneSpanAt(r) =>
                /\ frame # NoFrame
                /\ frame.rows[r][1] = "s" /\ frame.rows[r][2] = ""
                /\ frame.rows[r + 1][1] = "s" /\ frame.rows[r + 1][2] = "s"
                /\ OthersUnaffected(r)

\* C18 witness: three columns, the span and a plain cell in the first row,
\* a plain cell in the second.
C18_Witness ==
    /\ pc = "framed"
    /\ OneSpanAt(1)
    /\ Len(table.colspecs) = 3
    /\ table.rows = << <<SpanCell, PlainCell("a")>>, <<PlainCell("a")>> >>
    /\ frame.rows = << <<"s", "", "a">>, <<"s", "s", "a">> >>

\* ------------------------------------------ claims on header normalization

\* Row i of the DataFrame has x, y and z among its trimmed, lowercased cells.
HoldsAxes(i) ==
    \A a \in AxisLabels :
        \E j \in 1..Len(frame.rows[i]) : lower(strip(frame.rows[i][j])) = a
\* The rows among the first five that hold x, y and z.
AnchorCandidates == {i \in 1..Len(frame.rows) : i <= 5 /\ HoldsAxes(i)}
CellsOf(row) == {row[j] : j \in 1..Len(row)}
\* The normalized rows are the rows below row a, in order (some columns may
\* be gone or moved).
DataRowsAreBelow(a) ==
    /\ Len(normalized.rows) = Len(frame.rows) - a
    /\ \A k \in 1..Len(normalized.rows) :
          /\ Len(normalized.rows[k]) = Len(normalized.columns)
          /\ CellsOf(normalized.rows[k]) \subseteq CellsOf(frame.rows[a + k])
          /\ normalized.rows[k] # << >>

\* C19: the anchor is the first of the first 5 rows whose trimmed,
\* lowercased cells include x, y and z; the data rows are exactly the rows
\* below it. Without such a row among the first 5 every row stays a data
\* row, also when a row at position 6 or later holds x, y and z.
C19_AnchorIsFirstAxisRowOfFirstFive ==
    pc = "normalized" =>
        IF AnchorCandidates # {}
        THEN LET a == CHOOSE i \in AnchorCandidates : \A j \in AnchorCandidates : i <= j
             IN  DataRowsAreBelow(a)
        ELSE /\ DataRowsAreBelow(0)
             /\ frame.rows # << >> => Len(normalized.columns) = Len(frame.columns)

\* C19 witness: six rows, the second and the sixth hold x, y and z (the
\* second with padded capitals); the four rows below the second are the
\* data rows.
C19_Witness ==
    /\ pc = "normalized"
    /\ frame.rows = <<TitleRow, PaddedAxisRow, NumberRow, NumberRow, TitleRow, ExactAxisRow>>
    /\ Len(normalized.rows) = 4
    /\ normalized.columns[1] = <<"X">>

\* ------------------------------------------------- claims on the retry delay

\* What the Retry-After header yields: its seconds, or the delta to its date
\* clamped at 0; nothing when it is missing, empty or unparseable.
RetryAfterYield ==
    CASE rl_response.retry_after.kind = "num" -> Some(rl_response.retry_after.v)
      [] rl_response.retry_after.kind = "date" ->
            Some(IF rl_response.retry_after.v > rl_now
                 THEN rl_response.retry_after.v - rl_now ELSE 0)
      [] OTHER -> None
\* The seconds that remain until the X-RateLimit-Reset time, when that
\* header is a number.
ResetYield ==
    IF rl_response.reset.kind # "num" THEN None
    ELSE Some(IF rl_response.reset.v > rl_now THEN rl_response.reset.v - rl_now ELSE 0)

\* C26 as claimed: the delay is what Retry-After yields when it yields a
\* value, otherwise the seconds until the X-RateLimit-Reset time (a reset
\* time already reached may count as no delay), and none only when neither
\* yields one; an unparseable Retry-After falls through to the reset time.
C26_Claim_UnparseableRetryAfterFallsThrough ==
    pc = "delayed" =>
        IF RetryAfterYield # None THEN rl_delay = RetryAfterYield
        ELSE IF ResetYield = Some(0) THEN rl_delay \in {Some(0), None}
        ELSE rl_delay = ResetYield

\* C26 amended: a Retry-After header that is present and not empty decides
\* alone, so one that cannot be parsed gives no delay; only a missing or
\* empty Retry-After falls through to the X-RateLimit-Reset time, which
\* gives a delay only when it lies in the future.
C26_PresentRetryAfterDecidesAlone ==
    pc = "delayed" =>
        IF rl_response.retry_after.kind \in {"absent", "empty"}
        THEN rl_delay = IF ResetYield \in {None, Some(0)} THEN None ELSE ResetYield
        ELSE rl_delay = RetryAfterYield

\* C26 witness: Retry-After is unparseable, the reset time is one second
\* ahead, and no delay is reported.
C26_Witness ==
    /\ pc = "delayed"
    /\ rl_response.retry_after.kind = "bad"
    /\ rl_response.reset = Hdr("num", 2)
    /\ rl_now = 1
    /\ rl_delay = None

\* ------------------------------------------------ claims on the cache write

\* Event i ends an attempt on a payload that was fetched over HTTP.
EndedOnFetched(i) ==
    /\ events[i].op \in {"ok", "fail"}
    /\ events[i].via = "https"
    /\ events[i].payload.present
\* Event i is the view-mismatch rejection of a fetched payload.
RejectedFetched(i) ==
    /\ EndedOnFetched(i)
    /\ events[i].op = "fail"
    /\ events[i].err.msg = "metadata-only payload"

\* C28 as claimed: the cache is written only after the view validation
\* passed, so it never holds the payload that was fetched for a key and
\* rejected with the view-mismatch error.
C28_Claim_RejectedPayloadNeverCached ==
    pc # "client" =>
        \A i \in EventIdx :
            RejectedFetched(i) => cache[KeyOfType(events[i].t)] # events[i].payload

\* C28 amended: with a cache, every fetched payload is written under the key
\* of its identifier before the view validation, whether the validation then
\* accepts or rejects it: the write is the operation right before the end of
\* the attempt and the cache holds the payload afterwards.
C28_FetchedPayloadCachedBeforeValidation ==
    pc # "client" =>
        \A i \in EventIdx :
            (has_cache /\ EndedOnFetched(i)) =>
                /\ i > 1
                /\ events[i - 1] = Event("set", events[i].t, NoError, events[i].payload, "")
                /\ cache[KeyOfType(events[i].t)] = events[i].payload

\* C28 witness: a metadata-only payload was fetched, rejected with the
\* view-mismatch error, and is in the cache.
C28_Witness ==
    /\ pc # "client"
    /\ has_cache
    /\ \E i \in EventIdx :
          /\ RejectedFetched(i)
          /\ ~payload_contains_full_text(events[i].payload)
          /\ cache[KeyOfType(events[i].t)] = events[i].payload

\* ---------------------------------------------- claims on the returned list

\* The notifications that carried an article.
Succeeded == {k \in 1..Len(progress) : HasArticle(progress[k])}

\* C30: the list download_articles returns holds exactly the articles of the
\* records that succeeded, in the order of the records: as many as there
\* are notifications with an article, each the article of its
\* notification, at most one per record.
C30_ReturnedListIsSucceededInOrder ==
    pc = "returned" =>
        /\ Len(progress) = nrecords
        /\ Len(results) = Cardinality(Succeeded)
        /\ \A j \in 1..Len(results) :
              /\ results[j].rec \in Succeeded
              /\ progress[results[j].rec].article = results[j]
              /\ \A k \in 1..Len(results) : j < k => results[j].rec < results[k].rec

\* C30 witness: of two records the first failed and the second succeeded;
\* the returned list holds the one article of the second.
C30_Witness ==
    /\ pc = "returned"
    /\ nrecords = 2
    /\ Succeeded = {2}
    /\ Len(results) = 1
    /\ results[1].rec = 2

\* ----------------------------------------- claims on the semaphore permit

Asleep == {c \in Coroutines : co_pc[c] = "sleep"}

\* C29: a permit is held only while a dispatch is in flight: every step
\* that ends a dispatch, by a response or by an exception of the transport,
\* gives the permit back, a sleeping coroutine holds none, and whenever no
\* request is in flight all configured permits are available.
C29_PermitHeldOnlyWhileInFlight ==
    /\ [](pc = "pool" =>
            /\ InFlight = {} => sem_value = ConfiguredLimit
            /\ ConfiguredLimit - sem_value <= Cardinality(Coroutines \ Asleep))
    /\ [][\A c \in Coroutines :
            (co_pc[c] = "inflight" /\ co_pc'[c] # "inflight") =>
                /\ co_pc'[c] \in {"sleep", "done"}
                /\ sem_value' = sem_value + 1]_vars

\* C29 witness: with one permit, one coroutine sleeps before its retry
\* while the request of another is in flight, and a third is done.
C29_Witness ==
    /\ pc = "pool"
    /\ ConfiguredLimit = 1
    /\ \E a, b, c \in Coroutines :
          /\ co_pc[a] = "sleep"
          /\ co_pc[b] = "inflight"
          /\ co_pc[c] = "done"

\* ------------------------------------------------------ claims on row spans

\* The positions (row, child) of the cells that declare morerows >= 1.
RowSpanning ==
    {rj \in (1..Len(table.rows)) \X (1..MaxCols) :
        /\ rj[2] <= Len(table.rows[rj[1]])
        /\ table.rows[rj[1]][rj[2]].morerows.kind = "num"
        /\ table.rows[rj[1]][rj[2]].morerows.v >= 1}

\* C25: in a span-capable table whose only row-spanning cell declares
\* morerows = k, the cell's text is in its column(s) in each of the next k
\* rows and in none of the rows after them: the pending record is counted
\* down once per row and cleared when it is used up.
C25_RowSpanLastsExactlyMoreRows ==
    (pc = "framed" /\ FromCals /\ Cardinality(RowSpanning) = 1) =>
        LET rj == CHOOSE x \in RowSpanning : TRUE
            r == rj[1]
            cell == table.rows[r][rj[2]]
            k == cell.morerows.v
            cols == IF cell.namest # Absent THEN {1, 2} ELSE {rj[2]}
        IN  \A q \in 1..Len(table.rows), c \in cols :
                /\ (r < q /\ q <= r + k) => frame.rows[q][c] = cell.text
                /\ q > r + k => frame.rows[q][c] # cell.text

\* C25 witness: a cell with morerows = 2 in the second column of the first
\* row; rows 2 and 3 carry its text there, row 4 holds its own cell.
C25_Witness ==
    /\ pc = "framed"
    /\ table.rows = << <<PlainCell("a"), DeepCell>>, << >>, <<PlainCell("a")>>,
                       <<PlainCell("a"), PlainCell("a")>> >>
    /\ Len(table.colspecs) = 2
    /\ frame.rows[2][2] = "d"
    /\ frame.rows[3][2] = "d"
    /\ frame.rows[4][2] = "a"

\* ------------------------------------------------------ claims on the space

\* The header text and the metadata text joined, in small letters.
JoinedText == lower(header_text \o <<" ">> \o meta_text)
Holds(word) ==
    \E i \in 1..Len(JoinedText) :
        /\ i + Len(word) - 1 <= Len(JoinedText)
        /\ \A j \in 1..Len(word) : JoinedText[i + j - 1] = word[j]
\* The label the heuristic order gives.
HeuristicLabel ==
    IF Holds(<<"m", "n", "i">>) \/ Holds(<<"m", "o", "n", "t", "r", "e", "a", "l">>) THEN Some("MNI")
    ELSE IF \E v \in tal_tokens : Holds(v) THEN Some("TAL")
    ELSE IF Holds(<<"s", "p", "m">>) /\ Holds(<<"c", "o", "o", "r", "d", "i", "n", "a", "t", "e">>) THEN Some("MNI")
    ELSE None

\* C21: over the header text and the metadata text, whatever their case,
\* the heuristic gives MNI when they hold "mni" or "montreal" (a Talairach
\* spelling beside it changes nothing), else TAL when they hold a Talairach
\* spelling, else MNI when they hold "spm" and "coordinate", else nothing.
C21_HeuristicOrderMniTalSpm ==
    pc = "heuristic" => space = HeuristicLabel

\* C21 witness: "Montreal and Talairach atlas" under a header of x, y and z
\* is MNI.
C21_Witness ==
    /\ pc = "heuristic"
    /\ Holds(<<"m", "o", "n", "t", "r", "e", "a", "l">>)
    /\ Holds(<<"t", "a", "l", "a", "i", "r", "a", "c", "h">>)
    /\ space = Some("MNI")

C24_Claim_ReadsSeeWholeWrites ==
    pc = "cache" =>
        \/ got = None
        \/ Val(got) = OldData
        \/ \E w \in Writers : Val(got) = data_of(w)

\* -------------------------------------------- claims on extract_coordinates

\* C22 as claimed: extract_coordinates returns one study per article, in
\* the order of the articles, an article without coordinates included.
C22_Claim_OneStudyPerArticleInOrder ==
    pc = "extracted" =>
        /\ extracted.kind = "returned"
        /\ Len(extracted.studies) = Len(articles)
        /\ \A i \in 1..Len(articles) : extracted.studies[i].doi = articles[i].doi

\* An article whose payload does not parse.
Malformed(i) == ~articles[i].payload.wf

\* C23 as claimed: an article with malformed markup does not abort the
\* batch: it yields a study with no analyses and every other article of
\* the batch still has its study.
C23_Claim_MalformedArticleDoesNotAbort ==
    (pc = "extracted" /\ \E i \in 1..Len(articles) : Malformed(i)) =>
        /\ extracted.kind = "returned"
        /\ \A i \in 1..Len(articles) :
              \E k \in 1..Len(extracted.studies) :
                  /\ extracted.studies[k].doi = articles[i].doi
                  /\ Malformed(i) => extracted.studies[k].analyses = 0

====
